---------------------------- MODULE Spec2Model ----------------------------
(***************************************************************************)
(* A model of the Pearl SDK for Python (sdk-python/pearl_sdk):             *)
(*   - core/retry_policy.py    RetryPolicy                                 *)
(*   - utils/signature_utils.py  webhook signature engine                  *)
(*   - client.py               PearlClient and RetryHTTPAdapter.send       *)
(*   - resources/chat.py       Chat.send_completion and its parser         *)
(*   - resources/webhooks.py   Webhooks                                    *)
(*                                                                         *)
(* Python values that may be None, or of the wrong type, are records       *)
(* [k |-> kind, v |-> value]; text is a sequence of Unicode code points    *)
(* and bytes are sequences of 0..255.                                      *)
(***************************************************************************)
EXTENDS Integers, Sequences, FiniteSets, TLC

VARIABLES
    config,     \* the RetryPolicyConfig handed to RetryPolicy.__init__
    policy,     \* the RetryPolicy: not yet built, built, or construction raised
    call,       \* the last call of a RetryPolicy method and what it gave
    sig,        \* the signature engine: its arguments and what its calls gave
    client,     \* the PearlClient: its arguments, and whether it was constructed
    reqs,       \* the logical requests going through RetryHTTPAdapter.send
    json_body,  \* the JSON body handed to Chat._parse_chat_completion_response
    parsed,     \* what the parser gave for it
    hooks,      \* the Webhooks resource: not yet built, built, or construction raised
    op,         \* the call of a resource method under way, and what it gave
    http,       \* the requests handed to the session so far, in order
    slept       \* the milliseconds each logical request has slept in all

policyVars == <<config, policy, call>>
sendVars == <<client, reqs, slept>>
resVars == <<json_body, parsed, hooks, op, http>>
vars == <<config, policy, call, sig, client, reqs, json_body, parsed, hooks, op, http>>

---------------------------------------------------------------------------
(* Optional and dynamically typed values                                   *)

NoneInt == [k |-> "none", v |-> 0]
IntOf(n) == [k |-> "int", v |-> n]
NotAnInt == [k |-> "float", v |-> 0]
NoneBool == [k |-> "none", v |-> FALSE]
BoolOf(b) == [k |-> "bool", v |-> b]

\* an HTTP status code, or None
NoStatus == NoneInt
StatusOf(c) == IntOf(c)

Min(a, b) == IF a <= b THEN a ELSE b

---------------------------------------------------------------------------
(* types.py: RetryPolicyConfig, every field Optional and None by default   *)

RetryPolicyConfig(enabled, max_retries, retry_delay_ms, max_retry_delay_ms) ==
    [is_none |-> FALSE, enabled |-> enabled, max_retries |-> max_retries,
     retry_delay_ms |-> retry_delay_ms, max_retry_delay_ms |-> max_retry_delay_ms]

\* the argument of RetryPolicy() and of RetryPolicy(None)
NoConfig ==
    [is_none |-> TRUE, enabled |-> NoneBool, max_retries |-> NoneInt,
     retry_delay_ms |-> NoneInt, max_retry_delay_ms |-> NoneInt]

---------------------------------------------------------------------------
(* core/retry_policy.py: RetryPolicy.__init__                              *)

DefaultEnabled == TRUE
DefaultMaxRetries == 30
DefaultRetryDelayMs == 100
DefaultMaxRetryDelayMs == 30000

\* "x if x is not None else default"
OrDefaultFalsy(x, default) == IF x.k = "none" \/ x.v = 0 THEN IntOf(default) ELSE x
OrDefault(x, default) == IF x.k # "none" THEN x ELSE IntOf(default)

OrDefaultBool(x, default) == IF x.k # "none" THEN x ELSE BoolOf(default)

isinstance_int(x) == x.k = "int"

NoPolicy(state) ==
    [state |-> state, enabled |-> FALSE, max_retries |-> 0,
     retry_delay_ms |-> 0, max_retry_delay_ms |-> 0]

\* the checks of lines 33-43, in the order of the code; TRUE when one raises
InitRaisesNoOrderCheck(mr, rd, md) ==
    \/ ~isinstance_int(mr) \/ mr.v < 0
    \/ ~isinstance_int(rd) \/ rd.v <= 0
    \/ ~isinstance_int(md) \/ md.v <= 0
InitRaises(mr, rd, md) ==
    \/ ~isinstance_int(mr) \/ mr.v < 0
    \/ ~isinstance_int(rd) \/ rd.v <= 0
    \/ ~isinstance_int(md) \/ md.v <= 0
    \/ rd.v > md.v

RetryPolicyInit(arg) ==
    LET cfg == IF arg.is_none
               THEN RetryPolicyConfig(NoneBool, NoneInt, NoneInt, NoneInt)
               ELSE arg
        enabled == OrDefaultBool(cfg.enabled, DefaultEnabled)
        mr == OrDefault(cfg.max_retries, DefaultMaxRetries)
        rd == OrDefault(cfg.retry_delay_ms, DefaultRetryDelayMs)
        md == OrDefault(cfg.max_retry_delay_ms, DefaultMaxRetryDelayMs)
    IN  IF InitRaises(mr, rd, md)
        THEN NoPolicy("ValueError")
        ELSE [state |-> "ok", enabled |-> enabled.v, max_retries |-> mr.v,
              retry_delay_ms |-> rd.v, max_retry_delay_ms |-> md.v]

---------------------------------------------------------------------------
(* core/retry_policy.py: RetryPolicy.should_retry                          *)

RetryableStatus == 422

should_retry_inclusive(p, current_retry_count, status_code) ==
    IF ~p.enabled
    THEN FALSE
    ELSE LET is_retryable_status == status_code = StatusOf(RetryableStatus)
         IN  is_retryable_status /\ current_retry_count <= p.max_retries
\* a policy that retries server errors as well
should_retry_server_errors(p, current_retry_count, status_code) ==
    IF ~p.enabled
    THEN FALSE
    ELSE LET is_retryable_status ==
                 \/ status_code = StatusOf(RetryableStatus)
                 \/ status_code.k = "int" /\ status_code.v >= 500
         IN  is_retryable_status /\ current_retry_count < p.max_retries
should_retry(p, current_retry_count, status_code) ==
    IF ~p.enabled
    THEN FALSE
    ELSE LET is_retryable_status == status_code = StatusOf(RetryableStatus)
         IN  is_retryable_status /\ current_retry_count < p.max_retries

---------------------------------------------------------------------------
(* core/retry_policy.py: RetryPolicy.calculate_retry_delay                 *)

\* math.pow works on IEEE doubles: math.pow(2, e) raises OverflowError
\* ("math range error") once 2^e is no double, that is from e = 1024 on.
FloatMaxExp == 1024

\* random.random() is num / JitterSteps, num in 0..JitterSteps - 1; with
\* num = JitterSteps the product random() * capped_delay * 0.1 has rounded
\* up to capped_delay / 10, which double arithmetic allows.
JitterSteps == 4
Randoms == 0..JitterSteps

\* 2^e as far as min(.., limit) can tell: the exact power while it is at
\* most limit, else the first power of two above limit.
RECURSIVE Pow2Upto(_, _, _)
Pow2Upto(e, limit, acc) ==
    IF e = 0 \/ acc > limit THEN acc ELSE Pow2Upto(e - 1, limit, 2 * acc)

OverflowError == [kind |-> "OverflowError", v |-> 0]
Returned(v) == [kind |-> "int", v |-> v]

\* the delay with a jitter of up to the whole capped delay, not a tenth
calculate_retry_delay_full_jitter(p, retry_count, rnd) ==
    IF retry_count - 1 >= FloatMaxExp
    THEN OverflowError
    ELSE LET exponential_delay ==
                 p.retry_delay_ms * Pow2Upto(retry_count - 1, p.max_retry_delay_ms, 1)
             capped_delay == Min(exponential_delay, p.max_retry_delay_ms)
         IN  Returned(capped_delay + ((rnd * capped_delay) \div JitterSteps))

calculate_retry_delay(p, retry_count, rnd) ==
    IF retry_count - 1 >= FloatMaxExp
    THEN OverflowError
    ELSE LET exponential_delay ==
                 p.retry_delay_ms * Pow2Upto(retry_count - 1, p.max_retry_delay_ms, 1)
             capped_delay == Min(exponential_delay, p.max_retry_delay_ms)
             \* jitter = rnd / JitterSteps * capped_delay * 0.1
             jitter10 == rnd * capped_delay
         IN  \* math.floor(capped_delay + jitter), capped_delay an integer
             Returned(capped_delay + (jitter10 \div (10 * JitterSteps)))

\* self after a call of should_retry: the method reads self.enabled and
\* self._max_retries and assigns nothing (a policy that kept its remaining
\* budget in self would give one retry away with each yes)
should_retry_self_spending(p, current_retry_count, status_code) ==
    IF should_retry(p, current_retry_count, status_code)
    THEN [p EXCEPT !.max_retries = p.max_retries - 1]
    ELSE p

should_retry_self(p, current_retry_count, status_code) == p

\* self after a call of calculate_retry_delay: nothing is assigned either
calculate_retry_delay_self(p, retry_count) == p

---------------------------------------------------------------------------
(* Text and bytes. A str is None or a sequence of Unicode code points; a   *)
(* bytes object is a sequence of 0..255.                                   *)

NoneStr == [k |-> "none", v |-> <<>>]
Str(t) == [k |-> "str", v |-> t]

\* Python's "not x" for an Optional[str]: None and '' are both falsy
Falsy(x) == x.k = "none" \/ x.v = <<>>

\* one code point as UTF-8 (code points below 65536)
Utf8Char(cp) ==
    IF cp < 128 THEN <<cp>>
    ELSE IF cp < 2048 THEN <<192 + (cp \div 64), 128 + (cp % 64)>>
    ELSE <<224 + (cp \div 4096), 128 + ((cp \div 64) % 64), 128 + (cp % 64)>>

\* the encoding of text[lo..hi], by halves
RECURSIVE Utf8Range(_, _, _)
Utf8Range(text, lo, hi) ==
    IF lo > hi THEN <<>>
    ELSE IF lo = hi THEN Utf8Char(text[lo])
    ELSE LET mid == (lo + hi) \div 2
         IN  Utf8Range(text, lo, mid) \o Utf8Range(text, mid + 1, hi)

\* text.encode('utf-8')
utf8_encode(text) == Utf8Range(text, 1, Len(text))

\* bytes.hex(): two lower-case hexadecimal digits a byte
HexDigit(n) == IF n < 10 THEN 48 + n ELSE 97 + (n - 10)

hex(bytes) ==
    [i \in 1..(2 * Len(bytes)) |->
        IF i % 2 = 1 THEN HexDigit(bytes[(i + 1) \div 2] \div 16)
        ELSE HexDigit(bytes[i \div 2] % 16)]

\* str.upper() on ASCII text
upper(text) == [i \in 1..Len(text) |-> IF text[i] \in 97..122 THEN text[i] - 32 ELSE text[i]]

---------------------------------------------------------------------------
(* hashlib and hmac are libraries. Their digests are stood in for by a     *)
(* deterministic function of the input bytes with a result of the real     *)
(* length; nothing below relies on more than determinism and the length.   *)

\* the sum over k in lo..hi of data[k] weighted by position k and output
\* index i, by halves
RECURSIVE MixBytes(_, _, _, _)
MixBytes(data, lo, hi, i) ==
    IF lo > hi THEN 0
    ELSE IF lo = hi THEN (data[lo] + 1) * (((lo * i) % 251) + 1)
    ELSE LET mid == (lo + hi) \div 2
         IN  MixBytes(data, lo, mid, i) + MixBytes(data, mid + 1, hi, i)

StandInDigest(data, n) ==
    [i \in 1..n |-> (MixBytes(data, 1, Len(data), i) + 7 * i + Len(data)) % 256]

Sha256Bytes == 32
Sha1Bytes == 20

\* hashlib.sha256(data).digest()
sha256_digest(data) == StandInDigest(data, Sha256Bytes)

\* hmac.new(key, msg, hashlib.sha1).digest()
hmac_sha256_digest(key, msg) == StandInDigest(key \o <<Len(key) % 256>> \o msg, Sha256Bytes)
hmac_sha1_digest(key, msg) == StandInDigest(key \o <<Len(key) % 256>> \o msg, Sha1Bytes)

---------------------------------------------------------------------------
(* base64.b64encode and base64.b64decode (standard alphabet)               *)

PadChar == 61

B64Char(i) ==
    IF i < 26 THEN 65 + i
    ELSE IF i < 52 THEN 97 + (i - 26)
    ELSE IF i < 62 THEN 48 + (i - 52)
    ELSE IF i = 62 THEN 43 ELSE 47

\* binascii's table_a2b_base64: the value of a character, 64 when it is
\* not of the alphabet
B64Value(c) ==
    IF c \in 65..90 THEN c - 65
    ELSE IF c \in 97..122 THEN c - 97 + 26
    ELSE IF c \in 48..57 THEN c - 48 + 52
    ELSE IF c = 43 THEN 62
    ELSE IF c = 47 THEN 63
    ELSE 64

\* the k-th input byte, 0 past the end (the bits a short last group is
\* filled with)
ByteOrZero(bytes, k) == IF k <= Len(bytes) THEN bytes[k] ELSE 0

\* the j-th output character: each group of three bytes gives four
\* characters, a short last group is padded with '='
B64EncodedChar(bytes, j) ==
    LET g == (j - 1) \div 4
        q == (j - 1) % 4
        b1 == ByteOrZero(bytes, 3 * g + 1)
        b2 == ByteOrZero(bytes, 3 * g + 2)
        b3 == ByteOrZero(bytes, 3 * g + 3)
    IN  IF q = 0 THEN B64Char(b1 \div 4)
        ELSE IF q = 1 THEN B64Char((b1 % 4) * 16 + (b2 \div 16))
        ELSE IF q = 2 THEN
            IF 3 * g + 2 > Len(bytes) THEN PadChar
            ELSE B64Char((b2 % 16) * 4 + (b3 \div 64))
        ELSE
            IF 3 * g + 3 > Len(bytes) THEN PadChar ELSE B64Char(b3 % 64)

\* the encoding without its padding
b64encode_unpadded(bytes) ==
    [j \in 1..((4 * Len(bytes) + 2) \div 3) |-> B64EncodedChar(bytes, j)]
b64encode(bytes) ==
    [j \in 1..(4 * ((Len(bytes) + 2) \div 3)) |-> B64EncodedChar(bytes, j)]

DecodeError == [ok |-> FALSE, bytes |-> <<>>]
Decoded(bytes) == [ok |-> TRUE, bytes |-> bytes]

\* binascii.a2b_base64 without strict_mode, one character at a time:
\* characters outside the alphabet are skipped, a pad that completes a
\* quad ends the parse, and the parse fails when it ends inside a quad.
RECURSIVE a2b_base64(_, _, _, _, _, _)
a2b_base64(data, i, quad_pos, leftchar, pads, out) ==
    IF i > Len(data) THEN
        IF quad_pos # 0 THEN DecodeError ELSE Decoded(out)
    ELSE IF data[i] = PadChar THEN
        IF quad_pos >= 2 /\ quad_pos + pads + 1 >= 4
        THEN Decoded(out)
        ELSE a2b_base64(data, i + 1, quad_pos, leftchar,
                        IF quad_pos >= 2 THEN pads + 1 ELSE pads, out)
    ELSE IF B64Value(data[i]) >= 64 THEN
        a2b_base64(data, i + 1, quad_pos, leftchar, pads, out)
    ELSE LET this_ch == B64Value(data[i]) IN
        IF quad_pos = 0 THEN
            a2b_base64(data, i + 1, 1, this_ch, 0, out)
        ELSE IF quad_pos = 1 THEN
            a2b_base64(data, i + 1, 2, this_ch % 16, 0,
                       Append(out, leftchar * 4 + (this_ch \div 16)))
        ELSE IF quad_pos = 2 THEN
            a2b_base64(data, i + 1, 3, this_ch % 4, 0,
                       Append(out, leftchar * 16 + (this_ch \div 4)))
        ELSE
            a2b_base64(data, i + 1, 0, 0, 0, Append(out, leftchar * 64 + this_ch))

\* base64.b64decode(s) of a str: s.encode('ascii') raises ValueError on a
\* non-ASCII character, then binascii.a2b_base64
b64decode(text) ==
    IF \E i \in 1..Len(text) : text[i] >= 128
    THEN DecodeError
    ELSE a2b_base64(text, 1, 0, 0, 0, <<>>)

---------------------------------------------------------------------------
(* utils/signature_utils.py                                                *)

\* ":reference_token"
ReferenceTokenSuffix ==
    <<58, 114, 101, 102, 101, 114, 101, 110, 99, 101, 95, 116, 111, 107, 101, 110>>

_derive_hmac_key(initial_secret) ==
    LET concatenated_string == initial_secret \o ReferenceTokenSuffix
        hash_bytes == sha256_digest(utf8_encode(concatenated_string))
    IN  upper(hex(hash_bytes))

\* what a call gave: a value, or the exception it raised
Raised(exc) == [kind |-> exc, text |-> <<>>, bool |-> FALSE]
ReturnedStr(t) == [kind |-> "str", text |-> t, bool |-> FALSE]
ReturnedBool(b) == [kind |-> "bool", text |-> <<>>, bool |-> b]
NotCalled == Raised("none")

compute_webhook_signature(secret, payload) ==
    IF Falsy(secret) THEN Raised("ValueError")
    \* payload.encode on None
    ELSE IF payload.k = "none" THEN Raised("AttributeError")
    ELSE LET hmac_key == _derive_hmac_key(secret.v)
             hmac_digest == hmac_sha1_digest(utf8_encode(hmac_key), utf8_encode(payload.v))
         IN  ReturnedStr(b64encode(hmac_digest))

\* hmac.compare_digest on two bytes objects; payload is the parameter
\* webhook_payload_json_string of verify_webhook_signature
compare_digest(a, b) == a = b

\* verification that leaves the payload unchecked
verify_webhook_signature_any_payload(received_signature, payload, webhook_secret) ==
    IF Falsy(received_signature) \/ Falsy(webhook_secret)
    THEN Raised("ValueError")
    ELSE LET computed_signature ==
                 compute_webhook_signature(webhook_secret, payload)
             received_sig_bytes == b64decode(received_signature.v)
             computed_sig_bytes == b64decode(computed_signature.text)
         IN  IF ~received_sig_bytes.ok \/ ~computed_sig_bytes.ok
             THEN ReturnedBool(FALSE)
             ELSE IF Len(received_sig_bytes.bytes) # Len(computed_sig_bytes.bytes)
             THEN ReturnedBool(FALSE)
             ELSE ReturnedBool(compare_digest(received_sig_bytes.bytes,
                                              computed_sig_bytes.bytes))
\* verification that lets a decoding error through
verify_webhook_signature_uncaught(received_signature, payload, webhook_secret) ==
    IF Falsy(received_signature) \/ Falsy(payload)
           \/ Falsy(webhook_secret)
    THEN Raised("ValueError")
    ELSE LET computed_signature ==
                 compute_webhook_signature(webhook_secret, payload)
             received_sig_bytes == b64decode(received_signature.v)
             computed_sig_bytes == b64decode(computed_signature.text)
         IN  IF ~received_sig_bytes.ok \/ ~computed_sig_bytes.ok
             THEN Raised("binascii.Error")
             ELSE IF Len(received_sig_bytes.bytes) # Len(computed_sig_bytes.bytes)
             THEN ReturnedBool(FALSE)
             ELSE ReturnedBool(compare_digest(received_sig_bytes.bytes,
                                              computed_sig_bytes.bytes))
verify_webhook_signature(received_signature, payload, webhook_secret) ==
    IF Falsy(received_signature) \/ Falsy(payload)
           \/ Falsy(webhook_secret)
    THEN Raised("ValueError")
    ELSE LET computed_signature ==
                 compute_webhook_signature(webhook_secret, payload)
             received_sig_bytes == b64decode(received_signature.v)
             computed_sig_bytes == b64decode(computed_signature.text)
         IN  \* except Exception: return False
             IF ~received_sig_bytes.ok \/ ~computed_sig_bytes.ok
             THEN ReturnedBool(FALSE)
             ELSE IF Len(received_sig_bytes.bytes) # Len(computed_sig_bytes.bytes)
             THEN ReturnedBool(FALSE)
             ELSE ReturnedBool(compare_digest(received_sig_bytes.bytes,
                                              computed_sig_bytes.bytes))

\* the arguments and results of the signature engine before any call
NoSignatureCall ==
    [secret |-> NoneStr, payload |-> NoneStr, received |-> NoneStr,
     computed |-> NotCalled, again |-> NotCalled, verified |-> NotCalled]

---------------------------------------------------------------------------
(* client.py: PearlClient.__init__                                         *)

DefaultTimeout == 30

\* a float, and a value that is neither an int nor a float (a str)
FloatOf(n) == [k |-> "float", v |-> n]
NotANumber == [k |-> "str", v |-> 0]

\* resources/webhooks.py lines 18-33: Webhooks.__init__; given is the
\* secret the constructor was called with
NoWebhooks(state) == [state |-> state, _webhook_secret |-> NoneStr, given |-> NoneStr]

WebhooksInit(webhook_secret) ==
    IF Falsy(webhook_secret)
    THEN [NoWebhooks("ValueError") EXCEPT !.given = webhook_secret]
    ELSE [state |-> "ok", _webhook_secret |-> webhook_secret, given |-> webhook_secret]

\* given_api_key and given_timeout are what the constructor was called with
NoClient(state) ==
    [state |-> state, api_key |-> NoneStr, timeout |-> 0,
     given_api_key |-> NoneStr, given_timeout |-> NoneInt]

\* lines 39-43
PearlClientRaisesNoTimeoutCheck(api_key, timeout) == Falsy(api_key)

PearlClientRaises(api_key, timeout) ==
    \/ Falsy(api_key)
    \/ timeout.k # "none" /\ (timeout.k \notin {"int", "float"} \/ timeout.v <= 0)

\* the client, the RetryPolicy it builds from retry_policy (line 47) and the
\* Webhooks resource it builds last, from the api_key (line 73); an
\* exception in any of them leaves no client
PearlClientInit(api_key, timeout, retry_policy) ==
    LET failed == [NoClient("ValueError") EXCEPT !.given_api_key = api_key,
                                                 !.given_timeout = timeout]
    IN  IF PearlClientRaises(api_key, timeout)
        THEN [client |-> failed, policy |-> NoPolicy("unbuilt"),
              hooks |-> NoWebhooks("unbuilt")]
        ELSE IF RetryPolicyInit(retry_policy).state # "ok"
        THEN [client |-> failed, policy |-> RetryPolicyInit(retry_policy),
              hooks |-> NoWebhooks("unbuilt")]
        ELSE IF WebhooksInit(api_key).state # "ok"
        THEN [client |-> failed, policy |-> RetryPolicyInit(retry_policy),
              hooks |-> WebhooksInit(api_key)]
        ELSE [client |-> [state |-> "ok", api_key |-> api_key,
                          timeout |-> IF timeout.k # "none" THEN timeout.v
                                                            ELSE DefaultTimeout,
                          given_api_key |-> api_key, given_timeout |-> timeout],
              policy |-> RetryPolicyInit(retry_policy),
              hooks |-> WebhooksInit(api_key)]

---------------------------------------------------------------------------
(* client.py: RetryHTTPAdapter.send                                        *)

\* the two logical requests that may be in flight
AllReqs == {"r1", "r2"}

\* what one call of super().send gives: a response with a status, or a
\* requests.RequestException, with or without a response attached
Response(status) == [kind |-> "response", status |-> StatusOf(status)]
RequestException(status) == [kind |-> "exception", status |-> status]
NoOutcome == [kind |-> "none", status |-> NoStatus]

\* the timeout entry of **kwargs: absent, or present (None included)
NoTimeoutKwarg == [k |-> "absent", v |-> 0]

\* the locals of send, and what has happened to the request so far:
\*   sends, sleeps  the calls of super().send and of time.sleep completed
\*   first, last    the outcome of the first and of the latest attempt
\*   all_422        every attempt so far gave a response with status 422
\*   prior_422      every attempt before the latest did
\*   used           the timeouts the calls of super().send were given
\*   result         what send returned or raised
IdleRequest ==
    [pc |-> "idle", timeout |-> NoTimeoutKwarg, retry_count |-> 0,
     response |-> NoStatus, status_code |-> NoStatus, exception_to_raise |-> NoOutcome,
     delay_ms |-> 0, sends |-> 0, sleeps |-> 0,
     first |-> NoOutcome, last |-> NoOutcome, all_422 |-> TRUE, prior_422 |-> TRUE,
     used |-> {}, result |-> NoOutcome]

\* lines 111-115: the timeout default and retry_count = 0
SendEnter(r, kwargs_timeout, adapter_timeout) ==
    [r EXCEPT !.pc = "attempt",
              !.timeout = IF kwargs_timeout.k = "absent"
                          THEN IntOf(adapter_timeout) ELSE kwargs_timeout,
              !.retry_count = 0]

\* lines 117-129: the locals after super().send gave outcome o
AfterAttempt(r, o) ==
    [r EXCEPT !.response = IF o.kind = "response" THEN o.status ELSE NoStatus,
              !.status_code = o.status,
              !.exception_to_raise = IF o.kind = "exception" THEN o ELSE NoOutcome,
              !.sends = r.sends + 1,
              !.first = IF r.sends = 0 THEN o ELSE r.first,
              !.last = o,
              !.all_422 = r.all_422 /\ o = Response(RetryableStatus),
              !.prior_422 = r.all_422,
              !.used = r.used \cup {r.timeout}]

\* lines 131-142: the policy is asked; on yes the retry count goes up and
\* the delay is computed (rnd is what random.random() gave), on no the
\* exception is raised if there is one and the response returned if not
\* the loop without line 134: a yes of the policy leaves the count as it was
DecideNoCount(r, p, rnd) ==
    IF should_retry(p, r.retry_count, r.status_code)
    THEN LET delay == calculate_retry_delay(p, r.retry_count + 1, rnd)
         IN  IF delay.kind = "int"
             THEN [r EXCEPT !.delay_ms = delay.v, !.pc = "sleep"]
             ELSE [r EXCEPT !.pc = "raised",
                            !.result = [kind |-> delay.kind, status |-> NoStatus]]
    ELSE IF r.exception_to_raise.kind = "exception"
    THEN [r EXCEPT !.pc = "raised", !.result = r.exception_to_raise]
    ELSE [r EXCEPT !.pc = "returned",
                   !.result = [kind |-> "response", status |-> r.response]]

Decide(r, p, rnd) ==
    IF should_retry(p, r.retry_count, r.status_code)
    THEN LET delay == calculate_retry_delay(p, r.retry_count + 1, rnd)
         IN  IF delay.kind = "int"
             THEN [r EXCEPT !.retry_count = r.retry_count + 1,
                            !.delay_ms = delay.v, !.pc = "sleep"]
             ELSE [r EXCEPT !.retry_count = r.retry_count + 1,
                            !.pc = "raised",
                            !.result = [kind |-> delay.kind, status |-> NoStatus]]
    ELSE IF r.exception_to_raise.kind = "exception"
    THEN [r EXCEPT !.pc = "raised", !.result = r.exception_to_raise]
    ELSE [r EXCEPT !.pc = "returned",
                   !.result = [kind |-> "response", status |-> r.response]]

\* the policy object after the two calls Decide makes on it
PolicyAfterDecide(r, p) ==
    LET asked == should_retry_self(p, r.retry_count, r.status_code)
    IN  IF should_retry(p, r.retry_count, r.status_code)
        THEN calculate_retry_delay_self(asked, r.retry_count + 1)
        ELSE asked

\* retry_count, response, status_code and exception_to_raise are locals of
\* send: each call of send has its own, whatever other calls are under way
\* on the same adapter (kept on the adapter instead, the count would be the
\* count of all the calls together)
RECURSIVE SumRetryCounts(_, _)
SumRetryCounts(rs, qs) ==
    IF qs = {} THEN 0
    ELSE LET q == CHOOSE x \in qs : TRUE
         IN  rs[q].retry_count + SumRetryCounts(rs, qs \ {q})

LocalsOnAdapter(rs, q) == [rs[q] EXCEPT !.retry_count = SumRetryCounts(rs, DOMAIN rs)]

Locals(rs, q) == rs[q]

---------------------------------------------------------------------------
(* resources/chat.py: the JSON body of a chat completion, as json() gives  *)
(* it: a key of a dict is absent or carries a value, null included         *)

Absent == [k |-> "absent", v |-> ""]
Null == [k |-> "null", v |-> ""]
JBool(b) == [k |-> "bool", v |-> IF b THEN "true" ELSE "false"]
JStr(s) == [k |-> "str", v |-> s]
JInt(digits) == [k |-> "int", v |-> digits]

\* dict.get(key) and dict.get(key, default)
get(x) == IF x.k = "absent" THEN Null ELSE x
get_default(x, default) == IF x.k = "absent" THEN default ELSE x

\* the truth value Python gives a value: None, False, '' and 0 are false
truthy(x) == ~(x.k \in {"absent", "null"} \/ x = JBool(FALSE) \/ x = JStr("") \/ x = JInt("0"))

\* a or b
py_or(a, b) == IF truthy(a) THEN a ELSE b

\* the dict under expertInfo / expert_info: absent, null, or an object
\* with some of its five keys
ExpertKeys == {"name", "jobDescription", "job_description", "avatarUrl", "avatar_url"}

ExpertData(name, jobDescription, job_description, avatarUrl, avatar_url) ==
    [k |-> "obj", name |-> name,
     jobDescription |-> jobDescription, job_description |-> job_description,
     avatarUrl |-> avatarUrl, avatar_url |-> avatar_url]

EmptyObject == ExpertData(Absent, Absent, Absent, Absent, Absent)
AbsentObject == [EmptyObject EXCEPT !.k = "absent"]
NullObject == [EmptyObject EXCEPT !.k = "null"]

\* an empty dict is false
truthy_dict(x) == x.k = "obj" /\ \E key \in ExpertKeys : x[key].k # "absent"

\* the dict under message; choice_data.get('message', {}) makes an absent
\* one the empty dict
MessageData(score, isHuman, is_human, expertInfo, expert_info, role, content) ==
    [k |-> "obj", score |-> score, isHuman |-> isHuman, is_human |-> is_human,
     expertInfo |-> expertInfo, expert_info |-> expert_info,
     role |-> role, content |-> content]

EmptyMessage ==
    MessageData(Absent, Absent, Absent, AbsentObject, AbsentObject, Absent, Absent)
AbsentMessage == [EmptyMessage EXCEPT !.k = "absent"]
NullMessage == [EmptyMessage EXCEPT !.k = "null"]

ChoiceData(index, message, finish_reason) ==
    [index |-> index, message |-> message, finish_reason |-> finish_reason]

\* the list under choices: absent, null, or a list of choices
ChoicesList(items) == [k |-> "list", items |-> items]
AbsentChoices == [k |-> "absent", items |-> <<>>]
NullChoices == [k |-> "null", items |-> <<>>]

ResponseData(id, choices, created, questionId, question_id, userId, user_id) ==
    [id |-> id, choices |-> choices, created |-> created,
     questionId |-> questionId, question_id |-> question_id,
     userId |-> userId, user_id |-> user_id]

---------------------------------------------------------------------------
(* types.py: the dataclasses the parser builds                             *)

ExpertInfo(name, job_description, avatar_url) ==
    [k |-> "ExpertInfo", name |-> name,
     job_description |-> job_description, avatar_url |-> avatar_url]

\* expert_info = None
NoExpertInfo == [k |-> "none", name |-> Null, job_description |-> Null, avatar_url |-> Null]

ChatCompletionResponseMessage(is_human, expert_info, role, content) ==
    [is_human |-> is_human, expert_info |-> expert_info, role |-> role, content |-> content]

ChatCompletionChoice(index, message, finish_reason) ==
    [index |-> index, message |-> message, finish_reason |-> finish_reason]

ChatCompletionResponse(id, choices, created, question_id, user_id) ==
    [kind |-> "ChatCompletionResponse", id |-> id, choices |-> choices,
     created |-> created, question_id |-> question_id, user_id |-> user_id]

\* the parser raised, or has not been called
ParseRaised(exc) ==
    [kind |-> exc, id |-> Null, choices |-> <<>>,
     created |-> Null, question_id |-> Null, user_id |-> Null]
NotParsed == ParseRaised("none")

\* getattr(obj, name) on a dataclass instance: the field, or AttributeError
hasattr(obj, name) == name \in DOMAIN obj

---------------------------------------------------------------------------
(* resources/chat.py: Chat._parse_chat_completion_response                 *)

\* lines 90-98
ParseExpertInfo(message_data) ==
    LET camel == message_data.expertInfo
        expert_info_data == IF truthy_dict(camel) THEN camel ELSE message_data.expert_info
    IN  IF truthy_dict(expert_info_data)
        THEN ExpertInfo(get(expert_info_data.name),
                        py_or(get(expert_info_data.jobDescription),
                              get(expert_info_data.job_description)),
                        py_or(get(expert_info_data.avatarUrl),
                              get(expert_info_data.avatar_url)))
        ELSE NoExpertInfo

\* lines 100-105
ParseMessage(message_data) ==
    ChatCompletionResponseMessage(
        py_or(get_default(message_data.isHuman, JBool(FALSE)),
              get_default(message_data.is_human, JBool(FALSE))),
        ParseExpertInfo(message_data),
        get_default(message_data.role, JStr("assistant")),
        get(message_data.content))

\* lines 88-112, one turn of the loop
ParseChoiceDefaultStop(choice_data) ==
    ChatCompletionChoice(get_default(choice_data.index, JInt("0")),
                         ParseMessage(choice_data.message),
                         get_default(choice_data.finish_reason, JStr("stop")))

ParseChoice(choice_data) ==
    ChatCompletionChoice(get_default(choice_data.index, JInt("0")),
                         ParseMessage(choice_data.message),
                         get_default(choice_data.finish_reason, JStr("")))

\* iterating None raises TypeError; None.get raises AttributeError
_parse_chat_completion_response(data) ==
    IF data.choices.k = "null" THEN ParseRaised("TypeError")
    ELSE IF \E i \in 1..Len(data.choices.items) : data.choices.items[i].message.k = "null"
    THEN ParseRaised("AttributeError")
    ELSE ChatCompletionResponse(
            get_default(data.id, JStr("")),
            [i \in 1..Len(data.choices.items) |-> ParseChoice(data.choices.items[i])],
            get_default(data.created, JInt("0")),
            py_or(get(data.questionId), get(data.question_id)),
            py_or(get(data.userId), get(data.user_id)))

---------------------------------------------------------------------------
(* resources/chat.py: Chat.send_completion, and how Python binds the       *)
(* arguments of a call of it                                               *)

\* types.py lines 10 and 20
PEARL_AI == "pearl-ai"
DEFAULT_MODEL == "pearl-ai"

ChatMessage(role, content) == [role |-> role, content |-> content]

\* request_config: None, or a dict with some of the keys headers, timeout
NoRequestConfig == [k |-> "none", headers |-> "", timeout |-> NoTimeoutKwarg]
RequestConfig(headers, timeout) == [k |-> "dict", headers |-> headers, timeout |-> timeout]
EmptyKwargs == RequestConfig("", NoTimeoutKwarg)

\* lines 60-62: kwargs = {}; if request_config: kwargs.update(request_config)
KwargsOf(request_config) ==
    IF request_config.k = "dict" /\ request_config # EmptyKwargs
    THEN request_config ELSE EmptyKwargs

\* lines 22-29: the parameters after self, in order, and which have no default
Parameters == <<"messages", "session_id", "mode", "model", "request_config">>
ParameterNames == {Parameters[i] : i \in 1..Len(Parameters)}
Required == {"messages", "session_id"}
ParamIndex(name) == CHOOSE i \in 1..Len(Parameters) : Parameters[i] = name

\* a call: the positional arguments in order, and for each parameter name
\* whether a keyword argument of that name is given, and its value
NotGiven == [given |-> FALSE, value |-> ""]
GivenAs(v) == [given |-> TRUE, value |-> v]
Keywords(messages, session_id, mode, model, request_config) ==
    [messages |-> messages, session_id |-> session_id, mode |-> mode,
     model |-> model, request_config |-> request_config]
NoKeywords == Keywords(NotGiven, NotGiven, NotGiven, NotGiven, NotGiven)
Call(positional, keywords) == [positional |-> positional, keywords |-> keywords]
NoCallArgs == Call(<<>>, NoKeywords)

\* Python raises TypeError for too many positional arguments, for a
\* parameter given both by position and by keyword, and for a parameter
\* without default that is not given
BindRaises(c) ==
    \/ Len(c.positional) > Len(Parameters)
    \/ \E name \in ParameterNames :
          c.keywords[name].given /\ ParamIndex(name) <= Len(c.positional)
    \/ \E name \in Required :
          ParamIndex(name) > Len(c.positional) /\ ~c.keywords[name].given

Given(c, name) == ParamIndex(name) <= Len(c.positional) \/ c.keywords[name].given
Arg(c, name) ==
    IF ParamIndex(name) <= Len(c.positional)
    THEN c.positional[ParamIndex(name)] ELSE c.keywords[name].value

Bind(c) ==
    [messages |-> Arg(c, "messages"),
     session_id |-> Arg(c, "session_id"),
     mode |-> IF Given(c, "mode") THEN Arg(c, "mode") ELSE PEARL_AI,
     model |-> IF Given(c, "model") THEN Arg(c, "model") ELSE DEFAULT_MODEL,
     request_config |-> IF Given(c, "request_config")
                        THEN Arg(c, "request_config") ELSE NoRequestConfig]

\* lines 50-57
CompletionRequestData(b) ==
    [model |-> b.model,
     messages |-> [i \in 1..Len(b.messages) |->
                      [role |-> b.messages[i].role, content |-> b.messages[i].content]],
     metadata |-> [mode |-> b.mode, sessionId |-> b.session_id]]

\* what session.post / session.put is called with
HttpRequest(method, url, json, kwargs) ==
    [method |-> method, url |-> url, json |-> json, kwargs |-> kwargs]

\* line 64
CompletionPost(b) ==
    HttpRequest("POST", "/chat/completions", CompletionRequestData(b),
                KwargsOf(b.request_config))

\* resources/webhooks.py lines 92-98 and 117-123
WebhookRequest(method, endpoint, request_config) ==
    HttpRequest(method, "/webhook", [endpoint |-> endpoint], KwargsOf(request_config))

\* requests.Session.request hands the adapter timeout=<the timeout it was
\* called with>, None when it was called with none
SessionTimeout(kwargs) == IF kwargs.timeout.k = "absent" THEN NoneInt ELSE kwargs.timeout

\* response.raise_for_status(): HTTPError for 400 <= status < 600
raise_for_status(status) == 400 <= status /\ status < 600

---------------------------------------------------------------------------
(* resources/webhooks.py lines 35-74: the two signature methods            *)

is_valid_signature_swapped(self, received_signature, payload) ==
    verify_webhook_signature(payload, received_signature, self._webhook_secret)

is_valid_signature(self, received_signature, payload) ==
    verify_webhook_signature(received_signature, payload, self._webhook_secret)

compute_signature(self, payload) ==
    compute_webhook_signature(self._webhook_secret, payload)

---------------------------------------------------------------------------
(* The call of a resource method under way                                 *)

\* what the method gave: nothing yet, an exception (an HTTPError carries
\* the response's status), None, a ChatCompletionResponse (kept in parsed)
\* or what the signature engine gave
Result(kind, status) == [kind |-> kind, status |-> status, value |-> NotCalled]
NoResult == Result("none", NoStatus)
SignatureResult(value) == [kind |-> "signature", status |-> NoStatus, value |-> value]

NoOp ==
    [name |-> "none", pc |-> "idle", call |-> NoCallArgs,
     received |-> NoneStr, payload |-> NoneStr, status |-> NoStatus, result |-> NoResult]

ResIdle ==
    /\ json_body = Absent
    /\ parsed = NotParsed
    /\ hooks = NoWebhooks("unbuilt")
    /\ op = NoOp
    /\ http = <<>>

---------------------------------------------------------------------------
(* The retry policy on its own: a configuration is chosen, the policy is  *)
(* constructed from it, and one of its two methods is called with any     *)
(* arguments                                                              *)

\* a bound on the retry counts the methods are called with
MaxCount == 12

EnabledInputs == {NoneBool, BoolOf(TRUE), BoolOf(FALSE)}
MaxRetriesInputs == {NoneInt, NotAnInt, IntOf(-1), IntOf(0), IntOf(3), IntOf(1030)}
RetryDelayInputs ==
    {NoneInt, NotAnInt, IntOf(-50), IntOf(0), IntOf(200), IntOf(500), IntOf(40000)}
MaxRetryDelayInputs == {NoneInt, NotAnInt, IntOf(-500), IntOf(0), IntOf(500), IntOf(5000)}

ConfigInputs ==
    {NoConfig} \cup
    {RetryPolicyConfig(e, mr, rd, md) :
        e \in EnabledInputs, mr \in MaxRetriesInputs,
        rd \in RetryDelayInputs, md \in MaxRetryDelayInputs}

StatusInputs ==
    {NoStatus} \cup {StatusOf(c) : c \in {200, 302, 400, 401, 421, 422, 423, 500, 503}}

\* retry counts worth calling with: the small ones, those around
\* max_retries, and those around the largest exponent of a double
CountInputs(p) ==
    (0..MaxCount)
        \cup {n \in {p.max_retries - 1, p.max_retries, p.max_retries + 1} : n >= 0}
        \cup {FloatMaxExp - 1, FloatMaxExp, FloatMaxExp + 1, FloatMaxExp + 2}

NoCall ==
    [op |-> "none", n |-> 0, status |-> NoStatus, rnd |-> 0,
     retry |-> FALSE, delay |-> Returned(0)]

InitPolicy ==
    /\ config \in ConfigInputs
    /\ policy = NoPolicy("unbuilt")
    /\ call = NoCall
    /\ sig = NoSignatureCall
    /\ client = NoClient("unbuilt")
    /\ reqs = [q \in AllReqs |-> IdleRequest]
    /\ slept = [q \in AllReqs |-> 0]
    /\ ResIdle

\* policy = RetryPolicy(config)
Construct ==
    /\ policy.state = "unbuilt"
    /\ policy' = RetryPolicyInit(config)
    /\ UNCHANGED <<config, call, sig, sendVars, resVars>>

\* policy.should_retry(n, status)
CallShouldRetry ==
    /\ policy.state = "ok"
    /\ call.op = "none"
    /\ \E n \in CountInputs(policy), status \in StatusInputs :
          /\ call' = [NoCall EXCEPT !.op = "should_retry", !.n = n, !.status = status,
                                    !.retry = should_retry(policy, n, status)]
          /\ policy' = should_retry_self(policy, n, status)
    /\ UNCHANGED <<config, sig, sendVars, resVars>>

\* policy.calculate_retry_delay(r), r >= 1
CallCalculateRetryDelay ==
    /\ policy.state = "ok"
    /\ call.op = "none"
    /\ \E r \in CountInputs(policy) \ {0}, rnd \in Randoms :
          /\ call' = [NoCall EXCEPT !.op = "calculate_retry_delay", !.n = r, !.rnd = rnd,
                                    !.delay = calculate_retry_delay(policy, r, rnd)]
          /\ policy' = calculate_retry_delay_self(policy, r)
    /\ UNCHANGED <<config, sig, sendVars, resVars>>

NextPolicy == Construct \/ CallShouldRetry \/ CallCalculateRetryDelay

SpecPolicy == InitPolicy /\ [][NextPolicy]_vars

---------------------------------------------------------------------------
(* Properties of the retry policy, checked under SpecPolicy               *)

\* C1: should_retry(n, status) returns true if and only if the policy is
\* enabled, the status code is exactly 422 and n < max_retries; so it is
\* false for every other status (an absent one too), for 422 with
\* n >= max_retries, and for every input of a disabled policy.
C1_ShouldRetryIff ==
    call.op = "should_retry" =>
        (call.retry <=>
            /\ policy.enabled
            /\ call.status.k = "int" /\ call.status.v = 422
            /\ call.n < policy.max_retries)

\* should_retry(max_retries - 1, 422) of an enabled policy answered true
C1_Witness ==
    /\ call.op = "should_retry" /\ call.retry
    /\ policy.enabled /\ call.n > 0 /\ call.n = policy.max_retries - 1

\* min(retry_delay_ms * 2^(r-1), max_retry_delay_ms), by doubling r - 1 times
\* and stopping at the cap
RECURSIVE ExpectedBase(_, _, _)
ExpectedBase(p, doublings, acc) ==
    IF acc >= p.max_retry_delay_ms THEN p.max_retry_delay_ms
    ELSE IF doublings = 0 THEN acc
    ELSE ExpectedBase(p, doublings - 1, 2 * acc)

DelayInBand(p, r, d) ==
    LET base == ExpectedBase(p, r - 1, p.retry_delay_ms)
    IN  base <= d /\ 10 * d <= 11 * base

\* C6: for every retry count r >= 1, calculate_retry_delay(r) returns an
\* integer d with base <= d <= base * 1.1, where
\* base = min(retry_delay_ms * 2^(r-1), max_retry_delay_ms).
C6_DelayInBandForEveryCount ==
    call.op = "calculate_retry_delay" =>
        /\ call.delay.kind = "int"
        /\ DelayInBand(policy, call.n, call.delay.v)

\* what does hold of calculate_retry_delay: the band, for the retry counts
\* whose power of two is a double
DelayInBandBelowFloatRange ==
    (call.op = "calculate_retry_delay" /\ call.n - 1 < FloatMaxExp) =>
        /\ call.delay.kind = "int"
        /\ DelayInBand(policy, call.n, call.delay.v)

\* the numeric value a field takes when supplied or left out
Effective(x, default) == IF x.k = "none" THEN default ELSE x.v

IsNumber(x) == x.k \in {"none", "int"}

InvalidNumbers(cfg) ==
    LET mr == Effective(cfg.max_retries, 30)
        rd == Effective(cfg.retry_delay_ms, 100)
        md == Effective(cfg.max_retry_delay_ms, 30000)
    IN  /\ IsNumber(cfg.max_retries) /\ IsNumber(cfg.retry_delay_ms)
        /\ IsNumber(cfg.max_retry_delay_ms)
        /\ (mr < 0 \/ rd <= 0 \/ md <= 0 \/ rd > md)

\* C7: constructing a RetryPolicy fails, and yields no policy, whenever the
\* effective values have max_retries < 0, retry_delay_ms <= 0,
\* max_retry_delay_ms <= 0 or retry_delay_ms > max_retry_delay_ms; every
\* constructed policy has max_retries >= 0 and
\* 0 < retry_delay_ms <= max_retry_delay_ms.
C7_InvalidConfigFails ==
    policy.state # "unbuilt" =>
        /\ InvalidNumbers(config) => policy = NoPolicy("ValueError")
        /\ policy.state = "ok" =>
              /\ policy.max_retries >= 0
              /\ 0 < policy.retry_delay_ms
              /\ policy.retry_delay_ms <= policy.max_retry_delay_ms

\* a supplied retry_delay_ms above the default max_retry_delay_ms, all else
\* valid, made the construction fail
C7_Witness ==
    /\ policy.state = "ValueError"
    /\ config.max_retries = IntOf(3)
    /\ config.retry_delay_ms = IntOf(40000)
    /\ config.max_retry_delay_ms = NoneInt

\* C8: each field of a constructed RetryPolicy equals the supplied value
\* when one is supplied and otherwise its default (true, 30, 100, 30000);
\* no configuration gives the four defaults; a supplied enabled=false or
\* max_retries=0 is kept.
C8_FieldsSuppliedOrDefault ==
    policy.state = "ok" =>
        /\ policy.enabled = (IF config.enabled.k = "none" THEN TRUE ELSE config.enabled.v)
        /\ policy.max_retries = Effective(config.max_retries, 30)
        /\ policy.retry_delay_ms = Effective(config.retry_delay_ms, 100)
        /\ policy.max_retry_delay_ms = Effective(config.max_retry_delay_ms, 30000)
        /\ config.is_none =>
              /\ policy.enabled /\ policy.max_retries = 30
              /\ policy.retry_delay_ms = 100 /\ policy.max_retry_delay_ms = 30000

\* enabled=false and max_retries=0 were supplied and kept, the two delays
\* were left out and took their defaults
C8_Witness ==
    /\ policy.state = "ok"
    /\ config.enabled = BoolOf(FALSE) /\ ~policy.enabled
    /\ config.max_retries = IntOf(0) /\ policy.max_retries = 0
    /\ config.retry_delay_ms = NoneInt /\ policy.retry_delay_ms = 100
    /\ config.max_retry_delay_ms = NoneInt /\ policy.max_retry_delay_ms = 30000

---------------------------------------------------------------------------
(* The signature engine on its own: a secret and a payload are chosen,    *)
(* the signature is computed, and a received signature is verified: one   *)
(* chosen freely, or one made from the computed signature                 *)

\* a bound on the length of the freely chosen received signatures
MaxRecvLen == 3

\* 'k', 's2', 'é' and the empty and missing secret
SecretInputs == {NoneStr, Str(<<>>), Str(<<107>>), Str(<<115, 50>>), Str(<<233>>)}

\* 'p', 'pq', '{}', '€' and the empty and missing payload
PayloadInputs ==
    {NoneStr, Str(<<>>), Str(<<112>>), Str(<<112, 113>>), Str(<<123, 125>>), Str(<<8364>>)}

\* 'A', '=', '!' and 'é'
RecvChars == {65, 61, 33, 233}

ReceivedInputs ==
    {NoneStr} \cup
    {Str(t) : t \in UNION {[1..n -> RecvChars] : n \in 0..MaxRecvLen}}

\* what may become of a signature on its way to the receiver
Tampers ==
    {"same", "append_bang", "append_pad", "append_letter", "append_non_ascii",
     "prepend_space", "insert_newline", "drop_pad", "drop_last_quad",
     "change_first_char", "change_last_spare_bit", "twice"}

ReplaceAt(t, i, c) == [j \in 1..Len(t) |-> IF j = i THEN c ELSE t[j]]

\* the last character of t that is not '='
LastDataPos(t) == CHOOSE i \in 1..Len(t) : t[i] # PadChar /\ \A j \in (i+1)..Len(t) : t[j] = PadChar

Tamper(kind, t) ==
    CASE kind = "same" -> t
      [] kind = "append_bang" -> t \o <<33>>
      [] kind = "append_pad" -> t \o <<PadChar>>
      [] kind = "append_letter" -> t \o <<65>>
      [] kind = "append_non_ascii" -> t \o <<233>>
      [] kind = "prepend_space" -> <<32>> \o t
      [] kind = "insert_newline" -> SubSeq(t, 1, 5) \o <<10>> \o SubSeq(t, 6, Len(t))
      [] kind = "drop_pad" -> SubSeq(t, 1, Len(t) - 1)
      [] kind = "drop_last_quad" -> SubSeq(t, 1, Len(t) - 4)
      [] kind = "change_first_char" -> ReplaceAt(t, 1, B64Char((B64Value(t[1]) + 1) % 64))
      [] kind = "change_last_spare_bit" ->
            LET i == LastDataPos(t)
                v == B64Value(t[i])
            IN  ReplaceAt(t, i, B64Char(IF v % 2 = 0 THEN v + 1 ELSE v - 1))
      [] kind = "twice" -> t \o t

InitSig ==
    /\ config = NoConfig
    /\ policy = NoPolicy("unbuilt")
    /\ call = NoCall
    /\ client = NoClient("unbuilt")
    /\ reqs = [q \in AllReqs |-> IdleRequest]
    /\ slept = [q \in AllReqs |-> 0]
    /\ \E secret \in SecretInputs, payload \in PayloadInputs :
          sig = [NoSignatureCall EXCEPT !.secret = secret, !.payload = payload]
    /\ ResIdle

\* computed = compute_webhook_signature(secret, payload)
ComputeSignature ==
    /\ sig.computed = NotCalled
    /\ sig.verified = NotCalled
    /\ sig' = [sig EXCEPT !.computed = compute_webhook_signature(sig.secret, sig.payload)]
    /\ UNCHANGED <<policyVars, sendVars, resVars>>

\* verify_webhook_signature(received, payload, secret), any received
VerifyReceived ==
    /\ sig.verified = NotCalled
    /\ \E received \in ReceivedInputs :
          sig' = [sig EXCEPT !.received = received,
                             !.verified = verify_webhook_signature(received, sig.payload,
                                                                   sig.secret)]
    /\ UNCHANGED <<policyVars, sendVars, resVars>>

\* verify_webhook_signature(received, payload, secret), received being the
\* computed signature as it arrives
VerifyComputed ==
    /\ sig.computed.kind = "str"
    /\ sig.verified = NotCalled
    /\ \E kind \in Tampers :
          LET received == Str(Tamper(kind, sig.computed.text))
          IN  sig' = [sig EXCEPT !.received = received,
                                 !.verified = verify_webhook_signature(received, sig.payload,
                                                                       sig.secret)]
    /\ UNCHANGED <<policyVars, sendVars, resVars>>

\* compute_webhook_signature(secret, payload) once more
ComputeAgain ==
    /\ sig.computed # NotCalled
    /\ sig.again = NotCalled
    /\ sig.verified = NotCalled
    /\ sig' = [sig EXCEPT !.again = compute_webhook_signature(sig.secret, sig.payload)]
    /\ UNCHANGED <<policyVars, sendVars, resVars>>

NextSig == ComputeSignature \/ ComputeAgain \/ VerifyReceived \/ VerifyComputed

SpecSig == InitSig /\ [][NextSig]_vars

---------------------------------------------------------------------------
(* Properties of the signature engine, checked under SpecSig              *)

VerifyCalled == sig.verified # NotCalled
ComputeCalled == sig.computed # NotCalled

\* the received signature is the computed one, character for character
ReceivedIsComputed == sig.computed.kind = "str" /\ sig.received = Str(sig.computed.text)

\* C2: for every non-empty secret and every payload for which
\* compute_signature(secret, payload) returns a signature,
\* verify_signature(compute_signature(secret, payload), payload, secret)
\* returns true.
C2_RoundTripEveryPayload ==
    (VerifyCalled /\ ReceivedIsComputed) => sig.verified = ReturnedBool(TRUE)

\* C2 as amended: for every non-empty secret and every non-empty payload,
\* verify_signature(compute_signature(secret, payload), payload, secret)
\* returns true; for the empty payload, which compute_signature signs,
\* verify_signature raises the invalid-argument error instead.
C2_RoundTripNonEmptyPayload ==
    (VerifyCalled /\ ReceivedIsComputed) =>
        /\ ~Falsy(sig.payload) => sig.verified = ReturnedBool(TRUE)
        /\ Falsy(sig.payload) => sig.verified = Raised("ValueError")

\* the signature of a payload of two characters verified
C2_Witness ==
    /\ VerifyCalled /\ ReceivedIsComputed
    /\ sig.payload = Str(<<112, 113>>) /\ sig.secret = Str(<<115, 50>>)
    /\ sig.verified = ReturnedBool(TRUE)

AllPresent == ~Falsy(sig.received) /\ ~Falsy(sig.payload) /\ ~Falsy(sig.secret)

\* the received signature fails to decode, or decodes to a length other
\* than that of a SHA-1 digest
ReceivedMalformed ==
    LET decoded == b64decode(sig.received.v)
    IN  ~decoded.ok \/ Len(decoded.bytes) # 20

\* C4: for every non-empty received string, payload and secret,
\* verify_signature returns a boolean and never raises; when the received
\* string fails to Base64-decode or decodes to a byte length different
\* from the expected signature's, the result is false.
C4_MalformedIsFalseNeverRaises ==
    (VerifyCalled /\ AllPresent) =>
        /\ sig.verified.kind = "bool"
        /\ ReceivedMalformed => sig.verified = ReturnedBool(FALSE)

\* a received signature that does not decode ('A=!') was answered false
C4_Witness ==
    /\ VerifyCalled /\ AllPresent
    /\ sig.received = Str(<<65, 61, 33>>)
    /\ ~b64decode(sig.received.v).ok
    /\ sig.verified = ReturnedBool(FALSE)

\* C5: compute_signature fails with an invalid-argument error for every
\* payload when the secret is empty, and verify_signature fails with one
\* whenever any of received signature, payload or secret is empty or
\* missing; no signature is computed and no boolean is returned.
C5_EmptyArgumentsRaise ==
    /\ (ComputeCalled /\ Falsy(sig.secret)) => sig.computed = Raised("ValueError")
    /\ (VerifyCalled /\ ~AllPresent) => sig.verified = Raised("ValueError")

\* verify_signature of an empty payload, with a received signature and a
\* secret, raised
C5_Witness ==
    /\ VerifyCalled /\ sig.verified = Raised("ValueError")
    /\ sig.payload = Str(<<>>) /\ ~Falsy(sig.received) /\ ~Falsy(sig.secret)

---------------------------------------------------------------------------
(* One logical request through the retrying transport of a client         *)

ApiKeyInputs == {NoneStr, Str(<<>>), Str(<<107>>)}
TimeoutInputs == {NoneInt, NotANumber, FloatOf(0), FloatOf(2), IntOf(0), IntOf(-3), IntOf(5)}
KwargsTimeoutInputs == {NoTimeoutKwarg, NoneInt, IntOf(10)}

\* the default policy, a disabled one, one without retries, a short one,
\* an invalid one, and one with more retries than a double has exponents
ClientConfigInputs ==
    {NoConfig,
     RetryPolicyConfig(BoolOf(FALSE), IntOf(3), NoneInt, NoneInt),
     RetryPolicyConfig(NoneBool, IntOf(0), NoneInt, NoneInt),
     RetryPolicyConfig(BoolOf(TRUE), IntOf(3), IntOf(200), IntOf(500)),
     RetryPolicyConfig(NoneBool, NoneInt, IntOf(40000), NoneInt),
     RetryPolicyConfig(NoneBool, IntOf(1030), IntOf(5), IntOf(5))}

SendStatuses == {200, 304, 404, 422, 500}

\* no logical request is followed further than this many calls of
\* super().send past the max_retries + 1 its policy allows
MaxExtraSends == 3

Outcomes ==
    {Response(c) : c \in SendStatuses}
        \cup {RequestException(NoStatus), RequestException(StatusOf(422)),
              RequestException(StatusOf(503))}

InitSend ==
    /\ config \in ClientConfigInputs
    /\ policy = NoPolicy("unbuilt")
    /\ call = NoCall
    /\ sig = NoSignatureCall
    /\ client = NoClient("unbuilt")
    /\ reqs = [q \in AllReqs |-> IdleRequest]
    /\ slept = [q \in AllReqs |-> 0]
    /\ ResIdle

\* client = PearlClient(api_key, timeout=timeout, retry_policy=config)
ConstructClient ==
    /\ client.state = "unbuilt" /\ hooks.state = "unbuilt"
    /\ \E api_key \in ApiKeyInputs, timeout \in TimeoutInputs :
          LET built == PearlClientInit(api_key, timeout, config)
          IN  client' = built.client /\ policy' = built.policy /\ hooks' = built.hooks
    /\ UNCHANGED <<config, call, sig, reqs, slept, json_body, parsed, op, http>>

\* the session hands a request to the adapter: send(request, **kwargs)
SendStart(q) ==
    /\ client.state = "ok"
    /\ reqs[q].pc = "idle"
    /\ \E kwargs_timeout \in KwargsTimeoutInputs :
          reqs' = [reqs EXCEPT ![q] = SendEnter(reqs[q], kwargs_timeout, client.timeout)]
    /\ UNCHANGED <<policyVars, sig, client, slept, resVars>>

\* super().send gives its outcome and the loop runs on to the sleep, the
\* return or the raise
Attempt(q) ==
    /\ reqs[q].pc = "attempt"
    /\ reqs[q].sends <= policy.max_retries + MaxExtraSends
    /\ \E o \in Outcomes, rnd \in Randoms :
          LET r == AfterAttempt(Locals(reqs, q), o)
          IN  /\ reqs' = [reqs EXCEPT ![q] = Decide(r, policy, rnd)]
              /\ policy' = PolicyAfterDecide(r, policy)
    /\ UNCHANGED <<config, call, sig, client, slept, resVars>>

\* time.sleep(delay_ms / 1000.0) is over: continue (the time slept is
\* not added up here; SleepCounted adds it up)
Sleep(q) ==
    /\ reqs[q].pc = "sleep"
    /\ reqs' = [reqs EXCEPT ![q].pc = "attempt", ![q].sleeps = reqs[q].sleeps + 1]
    /\ UNCHANGED <<policyVars, sig, client, slept, resVars>>

NextSend ==
    \/ ConstructClient
    \/ SendStart("r1")
    \/ Attempt("r1")
    \/ Sleep("r1")

SpecSend == InitSend /\ [][NextSend]_vars

---------------------------------------------------------------------------
(* Properties of the retrying transport, checked under SpecSend           *)

Terminal(r) == r.pc \in {"returned", "raised"}

\* C9: if the policy is disabled, or the first attempt's outcome is
\* anything other than status 422 (a 2xx, another 4xx, a 5xx, or a failure
\* with no status code), then exactly one underlying send is made, no
\* sleep occurs, and that outcome is surfaced: the response returned, the
\* failure re-raised.
C9_SingleAttemptUnless422 ==
    \A q \in AllReqs :
        LET r == reqs[q]
        IN  (r.sends >= 1 /\ (~policy.enabled \/ r.first.status # StatusOf(422))) =>
                /\ r.sends = 1 /\ r.sleeps = 0 /\ r.retry_count = 0
                /\ r.pc = (IF r.first.kind = "response" THEN "returned" ELSE "raised")
                /\ r.result = r.first

\* a disabled policy returned the 422 of the first attempt
C9_Witness ==
    /\ policy.state = "ok" /\ ~policy.enabled
    /\ reqs["r1"].first = Response(422)
    /\ reqs["r1"].pc = "returned" /\ reqs["r1"].result = Response(422)
    /\ reqs["r1"].sends = 1

\* k responses with status 422 and then a response of another status
After422sAnother(r) ==
    /\ r.sends >= 1 /\ r.prior_422
    /\ r.last.kind = "response" /\ r.last.status # StatusOf(422)

\* C10: with an enabled policy, if the attempts yield k responses with
\* status 422 (0 <= k <= max_retries) followed by a response whose status
\* is not 422, the transport returns that response after exactly k+1
\* attempts and raises nothing: while no more than max_retries responses
\* with status 422 have arrived the request has not failed, and when the
\* other response arrives it is returned, after k sleeps.
C10_Transient422sInvisible ==
    \A q \in AllReqs :
        LET r == reqs[q]
        IN  (policy.state = "ok" /\ policy.enabled) =>
                /\ (r.all_422 /\ r.sends <= policy.max_retries) => r.pc # "raised"
                /\ (After422sAnother(r) /\ r.sends - 1 <= policy.max_retries) =>
                      /\ r.pc = "returned" /\ r.result = r.last
                      /\ r.retry_count = r.sends - 1 /\ r.sleeps = r.sends - 1

\* what does hold: the same, while the retry count stays within the
\* exponents of a double
Transient422sInvisibleBelowFloatRange ==
    \A q \in AllReqs :
        LET r == reqs[q]
        IN  (policy.state = "ok" /\ policy.enabled /\ r.sends <= FloatMaxExp) =>
                /\ (r.all_422 /\ r.sends <= policy.max_retries) => r.pc # "raised"
                /\ (After422sAnother(r) /\ r.sends - 1 <= policy.max_retries) =>
                      /\ r.pc = "returned" /\ r.result = r.last
                      /\ r.retry_count = r.sends - 1 /\ r.sleeps = r.sends - 1

\* C11: whenever the policy declines a retry the transport ends on the
\* final attempt's outcome: a response (of any status, a 422 left after the
\* retries included) is returned as it is and nothing is raised, a
\* network-level failure is re-raised; in every terminal state exactly one
\* of the two holds, so send never raises when the final attempt produced
\* a response.
C11_EndsOnFinalOutcome ==
    \A q \in AllReqs :
        LET r == reqs[q]
        IN  Terminal(r) =>
                /\ r.sends >= 1 /\ r.result = r.last
                /\ r.pc = (IF r.last.kind = "response" THEN "returned" ELSE "raised")

\* what does hold: the same of every terminal state reached while the
\* retry count stays within the exponents of a double
EndsOnFinalOutcomeBelowFloatRange ==
    \A q \in AllReqs :
        LET r == reqs[q]
        IN  (Terminal(r) /\ r.retry_count <= FloatMaxExp) =>
                /\ r.sends >= 1 /\ r.result = r.last
                /\ r.pc = (IF r.last.kind = "response" THEN "returned" ELSE "raised")

---------------------------------------------------------------------------
(* The parser on its own: a body is chosen and parsed                      *)

MaxChoices == 2

\* what the two keys of a dual-named field may carry
BoolValues == {Absent, Null, JBool(FALSE), JBool(TRUE)}
CamelTexts == {Absent, Null, JStr(""), JStr("camel")}
SnakeTexts == {Absent, Null, JStr(""), JStr("snake")}

\* objects told apart by their name
CamelExpert == ExpertData(JStr("Dr. Camel"), JStr("AI Researcher"), Absent, JStr("c.jpg"), Absent)
SnakeExpert == ExpertData(JStr("Dr. Snake"), Absent, JStr("Engineer"), Absent, JStr("s.jpg"))

ExpertInputs ==
    {AbsentObject, NullObject, EmptyObject, CamelExpert, SnakeExpert}
        \cup {ExpertData(Absent, c, s, Absent, Absent) : c \in CamelTexts, s \in SnakeTexts}
        \cup {ExpertData(JStr("n"), Absent, Absent, c, s) : c \in CamelTexts, s \in SnakeTexts}

MessageInputs ==
    {AbsentMessage, NullMessage, EmptyMessage}
        \cup {MessageData(Absent, c, s, AbsentObject, AbsentObject, JStr("assistant"), JStr("hi")) :
                 c \in BoolValues, s \in BoolValues}
        \cup {MessageData(Absent, Absent, Absent, c, s, Absent, Absent) :
                 c \in {AbsentObject, NullObject, EmptyObject, CamelExpert},
                 s \in {AbsentObject, NullObject, EmptyObject, SnakeExpert}}
        \cup {MessageData(Absent, Absent, Absent, c, AbsentObject, Absent, Absent) :
                 c \in ExpertInputs}
        \cup {MessageData(sc, JBool(TRUE), Absent, CamelExpert, AbsentObject, r, c) :
                 sc \in {Absent, Null, JStr("0.95")},
                 r \in {Absent, Null, JStr("assistant"), JStr("user")},
                 c \in {Absent, Null, JStr("Expert response.")}}

PlainMessage ==
    MessageData(Absent, JBool(FALSE), Absent, NullObject, AbsentObject,
                JStr("assistant"), JStr("Mocked assistant response."))

ChoiceInputs ==
    {ChoiceData(JInt("0"), m, JStr("stop")) : m \in MessageInputs}
        \cup {ChoiceData(i, PlainMessage, f) :
                 i \in {Absent, JInt("0"), JInt("1")},
                 f \in {Absent, Null, JStr(""), JStr("stop"), JStr("length")}}

\* the choices that make up the longer lists
FewChoices ==
    {ChoiceData(JInt("0"), PlainMessage, JStr("stop")),
     ChoiceData(JInt("1"), AbsentMessage, Absent),
     ChoiceData(Absent, MessageData(JStr("0.95"), Absent, JBool(TRUE), AbsentObject,
                                    SnakeExpert, JStr("user"), Null), JStr("length"))}

RECURSIVE ListsUpTo(_)
ListsUpTo(n) ==
    IF n = 0 THEN {<<>>}
    ELSE ListsUpTo(n - 1)
            \cup {Append(l, c) : l \in {m \in ListsUpTo(n - 1) : Len(m) = n - 1},
                                 c \in FewChoices}

ChoicesInputs ==
    {AbsentChoices, NullChoices}
        \cup {ChoicesList(<<c>>) : c \in ChoiceInputs}
        \cup {ChoicesList(l) : l \in ListsUpTo(MaxChoices)}

BodyInputs ==
    {ResponseData(JStr("chatcmpl-test"), c, JInt("1678886400"), Null, Absent, Null, Absent) :
        c \in ChoicesInputs}
        \cup {ResponseData(i, ChoicesList(<<>>), t, c, s, Absent, Absent) :
                 i \in {Absent, JStr("id")}, t \in {Absent, JInt("7")},
                 c \in CamelTexts, s \in SnakeTexts}
        \cup {ResponseData(Absent, AbsentChoices, Absent, Absent, Absent, c, s) :
                 c \in CamelTexts, s \in SnakeTexts}

InitParse ==
    /\ config = NoConfig
    /\ policy = NoPolicy("unbuilt")
    /\ call = NoCall
    /\ sig = NoSignatureCall
    /\ client = NoClient("unbuilt")
    /\ reqs = [q \in AllReqs |-> IdleRequest]
    /\ slept = [q \in AllReqs |-> 0]
    /\ json_body \in BodyInputs
    /\ parsed = NotParsed
    /\ hooks = NoWebhooks("unbuilt")
    /\ op = NoOp
    /\ http = <<>>

\* parsed = chat._parse_chat_completion_response(json_body)
Parse ==
    /\ parsed = NotParsed
    /\ parsed' = _parse_chat_completion_response(json_body)
    /\ UNCHANGED <<policyVars, sig, sendVars, json_body, hooks, op, http>>

NextParse == Parse

SpecParse == InitParse /\ [][NextParse]_vars

---------------------------------------------------------------------------
(* Properties of the parser, checked under SpecParse                       *)

Parsed == parsed.kind = "ChatCompletionResponse"
NonNull(x) == x.k \notin {"absent", "null"}

\* the value of the first candidate key whose value is non-null, else none
FirstNonNull(camel, snake) ==
    IF NonNull(camel) THEN camel ELSE IF NonNull(snake) THEN snake ELSE Null

\* the same of the two expert objects
FirstNonNullObject(camel, snake) ==
    IF camel.k = "obj" THEN camel ELSE IF snake.k = "obj" THEN snake ELSE NullObject

\* the ExpertInfo the claim gives for an object; for an empty object, which
\* has no non-null field, a missing ExpertInfo is accepted as well
ExpectedExpertInfos(obj) ==
    IF obj.k # "obj" THEN {NoExpertInfo}
    ELSE {ExpertInfo(get(obj.name),
                     FirstNonNull(obj.jobDescription, obj.job_description),
                     FirstNonNull(obj.avatarUrl, obj.avatar_url))}
            \cup (IF obj = EmptyObject THEN {NoExpertInfo} ELSE {})

\* is_human is a bool: false is accepted for none when neither key has a
\* non-null value
ExpectedIsHuman(m) ==
    IF NonNull(m.isHuman) \/ NonNull(m.is_human)
    THEN {FirstNonNull(m.isHuman, m.is_human)}
    ELSE {Null, JBool(FALSE)}

\* C13: for each of the six dual-named fields the parsed value is the value
\* of the first candidate key whose value is non-null: a non-null camelCase
\* value (false, an empty string or an empty object included) is never
\* replaced by the snake_case one, the snake_case value is used only when
\* the camelCase one is absent or null, and the result is none when both
\* are absent or null.
C13_FirstNonNullWins ==
    Parsed =>
        /\ parsed.question_id = FirstNonNull(json_body.questionId, json_body.question_id)
        /\ parsed.user_id = FirstNonNull(json_body.userId, json_body.user_id)
        /\ \A i \in 1..Len(parsed.choices) :
              LET m == json_body.choices.items[i].message
                  out == parsed.choices[i].message
              IN  /\ out.is_human \in ExpectedIsHuman(m)
                  /\ out.expert_info \in
                        ExpectedExpertInfos(FirstNonNullObject(m.expertInfo, m.expert_info))

\* C14: a missing choices field yields an empty sequence of choices, a
\* choice with no finish_reason gets finish_reason "" and a message with no
\* role gets role "assistant"; otherwise the parsed choices are exactly the
\* body's choices, one per entry and in the same order, each keeping its
\* own index, finish_reason, role and content.
C14_ChoicesKeptWithDefaults ==
    (parsed # NotParsed /\ json_body.choices.k # "null"
        /\ \A i \in 1..Len(json_body.choices.items) :
              json_body.choices.items[i].message.k # "null") =>
        /\ Parsed
        /\ json_body.choices.k = "absent" => parsed.choices = <<>>
        /\ Len(parsed.choices) = Len(json_body.choices.items)
        /\ \A i \in 1..Len(parsed.choices) :
              LET c == json_body.choices.items[i]
                  out == parsed.choices[i]
              IN  /\ c.index.k # "absent" => out.index = c.index
                  /\ out.finish_reason =
                        (IF c.finish_reason.k = "absent" THEN JStr("") ELSE c.finish_reason)
                  /\ out.message.role =
                        (IF c.message.role.k = "absent" THEN JStr("assistant")
                                                        ELSE c.message.role)
                  /\ out.message.content = get(c.message.content)

\* two choices were parsed, the second without finish_reason and role
C14_Witness ==
    /\ Parsed /\ Len(parsed.choices) = 2
    /\ json_body.choices.items[1].finish_reason = JStr("stop")
    /\ json_body.choices.items[2].finish_reason = Absent
    /\ json_body.choices.items[2].message.role = Absent
    /\ parsed.choices[1].finish_reason = JStr("stop")
    /\ parsed.choices[2].finish_reason = JStr("")
    /\ parsed.choices[2].message.role = JStr("assistant")
    /\ parsed.choices[2].index = JInt("1")

\* C16: for every body whose choice message carries a score field, the
\* parsed message exposes a score attribute equal to that value, alongside
\* is_human, content and expert_info.
C16_ScoreExposed ==
    Parsed =>
        \A i \in 1..Len(parsed.choices) :
            LET m == json_body.choices.items[i].message
                out == parsed.choices[i].message
            IN  NonNull(m.score) =>
                    /\ hasattr(out, "score") /\ out["score"] = m.score
                    /\ hasattr(out, "is_human") /\ hasattr(out, "content")
                    /\ hasattr(out, "expert_info")

---------------------------------------------------------------------------
(* The resources of a client: one call of Chat.send_completion, of         *)
(* Webhooks.register or Webhooks.update goes through the session and the   *)
(* retrying transport; the signature methods of a Webhooks resource, built *)
(* by the client or on its own, are called directly                        *)

\* a disabled policy and one with two retries
ResConfigInputs ==
    {RetryPolicyConfig(BoolOf(FALSE), NoneInt, NoneInt, NoneInt),
     RetryPolicyConfig(NoneBool, IntOf(2), IntOf(200), IntOf(500))}

UserMessage == ChatMessage("user", "Test message")
MessagesInputs == {<<UserMessage>>, <<ChatMessage("system", "Be brief."), UserMessage>>}

TestRequestConfig == RequestConfig("X-Custom-Header: test-value", IntOf(30))
RequestConfigInputs == {NoRequestConfig, EmptyKwargs, TestRequestConfig}

\* the calls of the tests and of the example, and calls by keyword
CompletionCalls(messages, session_id) ==
    <<Call(<<messages, session_id, "test-model", "test-mode">>, NoKeywords),
      Call(<<messages, session_id, "test-model">>,
           Keywords(NotGiven, NotGiven, GivenAs("PEARL_AI"), NotGiven,
                    GivenAs(TestRequestConfig))),
      Call(<<messages, session_id, "test-model">>, NoKeywords),
      Call(<<>>, Keywords(GivenAs(messages), GivenAs(session_id), GivenAs(PEARL_AI),
                          NotGiven, NotGiven)),
      Call(<<messages, session_id>>,
           Keywords(NotGiven, NotGiven, GivenAs("expert"), GivenAs("m1"),
                    GivenAs(EmptyKwargs))),
      Call(<<messages>>, NoKeywords)>>

EndpointInputs == {"https://example.com/webhook"}

\* response.json(): the body of test_send_completion_success, one with
\* dual-named fields, one without choices; or text that is not JSON
JsonInputs ==
    {ResponseData(JStr("chatcmpl-test"),
                  ChoicesList(<<ChoiceData(JInt("0"), PlainMessage, JStr("stop"))>>),
                  JInt("1678886400"), Null, Absent, Null, Absent),
     ResponseData(Absent, AbsentChoices, Absent, JStr(""), JStr("snake"), Absent, Absent)}

\* received signatures: missing, empty, malformed, well-formed but wrong,
\* and the signatures of the payloads under the secrets
ResReceivedInputs ==
    {NoneStr, Str(<<>>), Str(<<33>>), Str(<<65, 65, 65, 65>>)}
        \cup {Str(compute_webhook_signature(k, p).text) :
                 k \in {x \in SecretInputs : ~Falsy(x)},
                 p \in {x \in PayloadInputs : x.k = "str"}}

InitRes ==
    /\ config \in ResConfigInputs
    /\ policy = NoPolicy("unbuilt")
    /\ call = NoCall
    /\ sig = NoSignatureCall
    /\ client = NoClient("unbuilt")
    /\ reqs = [q \in AllReqs |-> IdleRequest]
    /\ slept = [q \in AllReqs |-> 0]
    /\ ResIdle

\* hooks = Webhooks(session, webhook_secret)
ConstructWebhooks ==
    /\ client.state = "unbuilt" /\ hooks.state = "unbuilt"
    /\ \E webhook_secret \in SecretInputs : hooks' = WebhooksInit(webhook_secret)
    /\ UNCHANGED <<policyVars, sig, sendVars, json_body, parsed, op, http>>

\* the request r goes to the session, which hands it to the adapter's send
Post(name, c, r) ==
    /\ http' = Append(http, r)
    /\ reqs' = [reqs EXCEPT !["r1"] =
                   SendEnter(reqs["r1"], SessionTimeout(r.kwargs), client.timeout)]
    /\ op' = [op EXCEPT !.name = name, !.pc = "sending", !.call = c]

\* client.chat.send_completion(...), up to the return of session.post
CallSendCompletion ==
    /\ client.state = "ok" /\ op.name = "none"
    /\ \E messages \in MessagesInputs, session_id \in {"test-session-123"} :
       \E i \in 1..Len(CompletionCalls(messages, session_id)) :
          LET c == CompletionCalls(messages, session_id)[i]
          IN  IF BindRaises(c)
              THEN /\ op' = [op EXCEPT !.name = "send_completion", !.pc = "done",
                                       !.call = c, !.result = Result("TypeError", NoStatus)]
                   /\ UNCHANGED <<reqs, http>>
              ELSE Post("send_completion", c, CompletionPost(Bind(c)))
    /\ UNCHANGED <<policyVars, sig, client, slept, json_body, parsed, hooks>>

\* client.webhooks.register(request, request_config)
CallRegister ==
    /\ client.state = "ok" /\ op.name = "none"
    /\ \E endpoint \in EndpointInputs, request_config \in RequestConfigInputs :
          Post("register", NoCallArgs, WebhookRequest("POST", endpoint, request_config))
    /\ UNCHANGED <<policyVars, sig, client, slept, json_body, parsed, hooks>>

\* client.webhooks.update(request, request_config)
CallUpdate ==
    /\ client.state = "ok" /\ op.name = "none"
    /\ \E endpoint \in EndpointInputs, request_config \in RequestConfigInputs :
          Post("update", NoCallArgs, WebhookRequest("PUT", endpoint, request_config))
    /\ UNCHANGED <<policyVars, sig, client, slept, json_body, parsed, hooks>>

\* session.post / session.put is over: the transport's exception goes on to
\* the caller; else raise_for_status, and send_completion parses the body
Finish ==
    /\ op.pc = "sending" /\ Terminal(reqs["r1"])
    /\ LET r == reqs["r1"]
       IN  IF r.pc = "raised"
           THEN /\ op' = [op EXCEPT !.pc = "done",
                                    !.result = Result(r.result.kind, r.result.status)]
                /\ UNCHANGED <<json_body, parsed>>
           ELSE IF raise_for_status(r.result.status.v)
           THEN /\ op' = [op EXCEPT !.pc = "done", !.status = r.result.status,
                                    !.result = Result("HTTPError", r.result.status)]
                /\ UNCHANGED <<json_body, parsed>>
           ELSE IF op.name # "send_completion"
           THEN /\ op' = [op EXCEPT !.pc = "done", !.status = r.result.status,
                                    !.result = Result("None", r.result.status)]
                /\ UNCHANGED <<json_body, parsed>>
           ELSE \/ /\ op' = [op EXCEPT !.pc = "done", !.status = r.result.status,
                                       !.result = Result("JSONDecodeError", r.result.status)]
                   /\ UNCHANGED <<json_body, parsed>>
                \/ \E body \in JsonInputs :
                      /\ json_body' = body
                      /\ parsed' = _parse_chat_completion_response(body)
                      /\ op' = [op EXCEPT !.pc = "done", !.status = r.result.status,
                                          !.result = Result(parsed'.kind, r.result.status)]
    /\ UNCHANGED <<policyVars, sig, sendVars, hooks, http>>

\* hooks.is_valid_signature(received_signature, payload)
CallIsValidSignature ==
    /\ hooks.state = "ok" /\ op.name = "none"
    /\ \E received_signature \in ResReceivedInputs, payload \in PayloadInputs :
          op' = [op EXCEPT !.name = "is_valid_signature", !.pc = "done",
                           !.received = received_signature, !.payload = payload,
                           !.result = SignatureResult(
                               is_valid_signature(hooks, received_signature, payload))]
    /\ UNCHANGED <<policyVars, sig, sendVars, json_body, parsed, hooks, http>>

\* hooks.compute_signature(payload)
CallComputeSignature ==
    /\ hooks.state = "ok" /\ op.name = "none"
    /\ \E payload \in PayloadInputs :
          op' = [op EXCEPT !.name = "compute_signature", !.pc = "done",
                           !.payload = payload,
                           !.result = SignatureResult(compute_signature(hooks, payload))]
    /\ UNCHANGED <<policyVars, sig, sendVars, json_body, parsed, hooks, http>>

NextRes ==
    \/ ConstructClient
    \/ ConstructWebhooks
    \/ CallSendCompletion
    \/ CallRegister
    \/ CallUpdate
    \/ Attempt("r1")
    \/ Sleep("r1")
    \/ Finish
    \/ CallIsValidSignature
    \/ CallComputeSignature

SpecRes == InitRes /\ [][NextRes]_vars

---------------------------------------------------------------------------
(* Properties of the resources, checked under SpecRes                      *)

HttpOps == {"send_completion", "register", "update"}

\* the transport returned a response to the operation, which is over
GotResponse == op.name \in HttpOps /\ op.pc = "done" /\ op.status # NoStatus

\* C12: for each of send_completion, register and update: whenever the
\* response finally returned by the transport has a status outside 200-299
\* (a 3xx, and a 422 left after the retries, included) the operation fails
\* with an HTTP error carrying that response, and send_completion parses
\* and returns nothing; whenever the status is within 200-299 the operation
\* does not fail with an HTTP error.
C12_Non2xxIsHttpError ==
    GotResponse =>
        IF op.status.v \in 200..299
        THEN op.result.kind # "HTTPError"
        ELSE /\ op.result.kind = "HTTPError" /\ op.result.status = op.status
             /\ parsed = NotParsed

\* what does hold: the HTTP error is raised for the statuses 400-599, and
\* then nothing is parsed
HttpErrorFrom400To599 ==
    GotResponse =>
        /\ op.result.kind = "HTTPError" <=> op.status.v \in 400..599
        /\ op.result.kind = "HTTPError" => op.result.status = op.status /\ parsed = NotParsed

\* the call send_completion(messages, session_id, a, b)
FourPositional == Len(op.call.positional) = 4 /\ op.call.keywords = NoKeywords

\* the call send_completion(messages, session_id, a, mode=m, request_config=c)
ThreePositionalModeConfig ==
    /\ Len(op.call.positional) = 3
    /\ op.call.keywords["mode"].given /\ op.call.keywords["request_config"].given
    /\ ~op.call.keywords["model"].given

PostedMessages(messages) ==
    [i \in 1..Len(messages) |-> [role |-> messages[i].role, content |-> messages[i].content]]

\* C15: called with the positional arguments (messages, session_id, a, b),
\* a the model and b the mode as in the tests, send_completion issues
\* exactly one POST to '/chat/completions' whose JSON body has model == a,
\* metadata.mode == b, metadata.sessionId == session_id and the given
\* messages as {role, content} in order; the call send_completion(messages,
\* session_id, a, mode=m, request_config=c) is accepted as well and posts
\* model == a and metadata.mode == m with the entries of c as extra request
\* arguments.
C15_PostsModelAndMode ==
    op.name = "send_completion" =>
        /\ FourPositional =>
              /\ op.result.kind # "TypeError"
              /\ Len(http) = 1
              /\ http[1].method = "POST" /\ http[1].url = "/chat/completions"
              /\ http[1].json.model = op.call.positional[3]
              /\ http[1].json.metadata.mode = op.call.positional[4]
              /\ http[1].json.metadata.sessionId = op.call.positional[2]
              /\ http[1].json.messages = PostedMessages(op.call.positional[1])
        /\ ThreePositionalModeConfig =>
              /\ op.result.kind # "TypeError"
              /\ Len(http) = 1
              /\ http[1].method = "POST" /\ http[1].url = "/chat/completions"
              /\ http[1].json.model = op.call.positional[3]
              /\ http[1].json.metadata.mode = op.call.keywords["mode"].value
              /\ http[1].kwargs = KwargsOf(op.call.keywords["request_config"].value)

PositiveNumber(t) == t.k \in {"int", "float"} /\ t.v > 0

C18_DelegatesWithBoundSecret ==
    /\ op.name = "is_valid_signature" =>
          /\ op.result.value = verify_webhook_signature(op.received, op.payload, hooks.given)
          /\ http = <<>> /\ \A q \in AllReqs : reqs[q].pc = "idle"
    /\ op.name = "compute_signature" =>
          /\ op.result.value = compute_webhook_signature(hooks.given, op.payload)
          /\ http = <<>> /\ \A q \in AllReqs : reqs[q].pc = "idle"

\* the resource of a client found the signature of a payload valid
C18_Witness ==
    /\ client.state = "ok" /\ hooks.given = client.api_key
    /\ op.name = "is_valid_signature" /\ op.result.value = ReturnedBool(TRUE)
    /\ op.received = Str(compute_webhook_signature(hooks.given, op.payload).text)

---------------------------------------------------------------------------
(* The length of a signature, checked under SpecSig                        *)

---------------------------------------------------------------------------
(* The timeout of the attempts, checked under SpecRes                      *)

\* the timeout the caller of the resource method supplied in request_config
CallerTimeout == http[Len(http)].kwargs.timeout

SentThroughSession == op.name \in HttpOps /\ reqs["r1"].sends >= 1

\* C21: every attempt of a request issued through the client's session
\* without a timeout of the caller's is sent with the client's configured
\* timeout, 30 seconds when the client was constructed without one; a
\* timeout given in request_config is used for every attempt instead.
C21_AttemptsUseConfiguredTimeout ==
    SentThroughSession =>
        /\ client.given_timeout = NoneInt => client.timeout = DefaultTimeout
        /\ reqs["r1"].used =
              {IF CallerTimeout.k = "absent" THEN IntOf(client.timeout) ELSE CallerTimeout}

\* what does hold: every attempt is sent with the timeout the session
\* hands over, which is the caller's, and None when the caller gave none
AttemptsUseSessionTimeout ==
    SentThroughSession => reqs["r1"].used = {SessionTimeout(http[Len(http)].kwargs)}


---------------------------------------------------------------------------
(* Two logical requests under way at once on the adapter of one client,    *)
(* each in a thread of its own: their steps interleave in any order        *)

\* policies with one and with two retries
ConcConfigInputs ==
    {RetryPolicyConfig(NoneBool, IntOf(1), IntOf(10), IntOf(30)),
     RetryPolicyConfig(BoolOf(TRUE), IntOf(2), IntOf(10), IntOf(30))}

\* the client is constructed; no request has been sent
InitConc ==
    /\ config \in ConcConfigInputs
    /\ LET built == PearlClientInit(Str(<<107>>), NoneInt, config)
       IN  client = built.client /\ policy = built.policy /\ hooks = built.hooks
    /\ call = NoCall
    /\ sig = NoSignatureCall
    /\ reqs = [q \in AllReqs |-> IdleRequest]
    /\ slept = [q \in AllReqs |-> 0]
    /\ json_body = Absent /\ parsed = NotParsed /\ op = NoOp /\ http = <<>>

NextConc ==
    \/ \E q \in AllReqs : SendStart(q)
    \/ \E q \in AllReqs : Attempt(q)
    \/ \E q \in AllReqs : Sleep(q)

SpecConc == InitConc /\ [][NextConc]_vars

\* the retries request r has been granted: the sleeps it has finished and
\* the one it is in
Granted(r) == r.sleeps + (IF r.pc = "sleep" THEN 1 ELSE 0)

\* C22: with two logical requests interleaved in any way on one transport
\* and one RetryPolicy, each request's retry count is its own: it counts
\* the retries that request was granted, a retry is granted or declined on
\* that request's own count and latest status alone (so each request can
\* be granted max_retries retries whatever the other has used), the delay
\* it sleeps is the delay of its own count, and a request that sleeps keeps
\* no other request from attempting or finishing.
C22_RetryCountIsPerRequest ==
    \A q \in AllReqs :
        LET r == reqs[q]
        IN  /\ r.retry_count = Granted(r)
            /\ r.retry_count <= policy.max_retries
            /\ r.pc = "sleep" =>
                  /\ should_retry(policy, r.retry_count - 1, r.status_code)
                  /\ \E rnd \in Randoms :
                        Returned(r.delay_ms) = calculate_retry_delay(policy, r.retry_count, rnd)
            /\ Terminal(r) =>
                  /\ ~should_retry(policy, r.retry_count, r.status_code)
                  /\ r.result = r.last
            /\ r.pc = "attempt" => ENABLED Attempt(q)
            /\ r.pc = "sleep" => ENABLED Sleep(q)

\* one request has had both its retries and sleeps before its third
\* attempt; the other, started meanwhile, had both of its own and was
\* returned the 422 of its third attempt
C22_Witness ==
    /\ policy.max_retries = 2
    /\ reqs["r1"].pc = "sleep" /\ reqs["r1"].retry_count = 2
    /\ reqs["r2"].pc = "returned" /\ reqs["r2"].retry_count = 2
    /\ reqs["r2"].sends = 3 /\ reqs["r2"].all_422


---------------------------------------------------------------------------
(* The policy as a shared object, checked under SpecSend                   *)

\* C23: once constructed a RetryPolicy is never written: no step of a send
\* (an attempt with any outcome, with the call of should_retry and, on a
\* retry, of calculate_retry_delay it makes; a sleep; a return or a raise)
\* changes enabled, max_retries, retry_delay_ms or max_retry_delay_ms, so
\* should_retry(n, status) answers after the step as it did before.
C23_PolicyIsReadOnly ==
    [][policy.state = "ok" =>
          /\ policy' = policy
          /\ \A n \in {0, policy.max_retries - 1, policy.max_retries} :
                should_retry(policy', n, StatusOf(RetryableStatus))
                    = should_retry(policy, n, StatusOf(RetryableStatus))]_vars

\* a send that was granted all three retries of its policy is over, and the
\* policy is as it was constructed
C23_Witness ==
    /\ policy = RetryPolicyInit(config) /\ policy.state = "ok"
    /\ policy.enabled /\ policy.max_retries = 3
    /\ reqs["r1"].pc = "returned" /\ reqs["r1"].retry_count = 3


---------------------------------------------------------------------------
(* The order of attempts and sleeps within one logical request, checked    *)
(* under SpecSend                                                          *)

\* the delays calculate_retry_delay(k) can give under policy p
DelaysOf(p, k) ==
    {calculate_retry_delay(p, k, rnd).v :
        rnd \in {x \in Randoms : calculate_retry_delay(p, k, x).kind = "int"}}

\* C24: within one logical request attempts and sleeps alternate strictly:
\* nothing is slept before the first attempt; each yes of the policy, after
\* attempt k, makes the retry count k and is followed by exactly one sleep,
\* of calculate_retry_delay(k) milliseconds, and then by attempt k + 1 with
\* the send arguments of the attempts before; nothing is slept after the
\* final attempt, so a request that is over was granted as many retries as
\* it slept.
C24_AttemptsAndSleepsAlternate ==
    \A q \in AllReqs :
        LET r == reqs[q]
        IN  /\ r.sends = 0 => r.sleeps = 0 /\ r.retry_count = 0
            /\ r.pc = "attempt" => r.sleeps = r.sends /\ r.retry_count = r.sends
            /\ r.pc = "sleep" =>
                  /\ r.sends = r.sleeps + 1 /\ r.retry_count = r.sends
                  /\ r.delay_ms \in DelaysOf(policy, r.retry_count)
            /\ Terminal(r) => r.sends = r.sleeps + 1 /\ r.retry_count = r.sleeps
            /\ Cardinality(r.used) <= 1

\* what does hold: the same, while the retry count stays within the
\* exponents of a double
AttemptsAndSleepsAlternateBelowFloatRange ==
    \A q \in AllReqs :
        LET r == reqs[q]
        IN  /\ r.sends = 0 => r.sleeps = 0 /\ r.retry_count = 0
            /\ r.pc = "attempt" => r.sleeps = r.sends /\ r.retry_count = r.sends
            /\ r.pc = "sleep" =>
                  /\ r.sends = r.sleeps + 1 /\ r.retry_count = r.sends
                  /\ r.delay_ms \in DelaysOf(policy, r.retry_count)
            /\ (Terminal(r) /\ r.retry_count <= FloatMaxExp) =>
                  r.sends = r.sleeps + 1 /\ r.retry_count = r.sleeps
            /\ Cardinality(r.used) <= 1


---------------------------------------------------------------------------
(* Network-level failures, checked under SpecSend                          *)

\* the latest attempt of r failed with an exception that carries a response
\* with this status (NoStatus: it carries none)
FailedWith(r, status) == r.sends >= 1 /\ r.last = RequestException(status)

\* C25: a failed attempt is judged by the status of the response its
\* exception carries: under an enabled policy a failure carrying a 422 is
\* retried, as a 422 response is, while the retry count is below
\* max_retries; once the retries are used up, or when the status carried is
\* not 422 or the policy is disabled, the failure itself is raised to the
\* caller, and no response is returned; a failure carrying no response is
\* never retried.
C25_FailureJudgedByAttachedStatus ==
    \A q \in AllReqs :
        LET r == reqs[q]
            carries_422 == FailedWith(r, StatusOf(RetryableStatus))
            failed == r.sends >= 1 /\ r.last.kind = "exception"
        IN  /\ (carries_422 /\ policy.enabled /\ r.sends <= policy.max_retries) =>
                  /\ r.pc \in {"sleep", "attempt"}
                  /\ r.retry_count = r.sends
            /\ (failed /\ ~(carries_422 /\ policy.enabled /\ r.sends <= policy.max_retries)) =>
                  /\ r.pc = "raised" /\ r.result = r.last
                  /\ r.retry_count = r.sends - 1
            /\ FailedWith(r, NoStatus) => r.pc = "raised" /\ r.result = r.last

\* what does hold: the same, while the retry count stays within the
\* exponents of a double
FailureJudgedByAttachedStatusBelowFloatRange ==
    \A q \in AllReqs :
        LET r == reqs[q]
            carries_422 == FailedWith(r, StatusOf(RetryableStatus))
            failed == r.sends >= 1 /\ r.last.kind = "exception"
        IN  r.retry_count <= FloatMaxExp =>
              /\ (carries_422 /\ policy.enabled /\ r.sends <= policy.max_retries) =>
                    /\ r.pc \in {"sleep", "attempt"}
                    /\ r.retry_count = r.sends
              /\ (failed /\ ~(carries_422 /\ policy.enabled /\ r.sends <= policy.max_retries)) =>
                    /\ r.pc = "raised" /\ r.result = r.last
                    /\ r.retry_count = r.sends - 1
              /\ FailedWith(r, NoStatus) => r.pc = "raised" /\ r.result = r.last


---------------------------------------------------------------------------
(* The time slept in all. One logical request is sent under a policy with  *)
(* few retries, and each sleep is added to the request's total             *)

\* a disabled policy, and policies whose delays double below the cap, meet
\* the cap, and start at the cap
SleepConfigInputs ==
    {RetryPolicyConfig(BoolOf(FALSE), IntOf(3), NoneInt, NoneInt),
     RetryPolicyConfig(NoneBool, IntOf(0), NoneInt, NoneInt),
     RetryPolicyConfig(NoneBool, IntOf(2), NoneInt, NoneInt),
     RetryPolicyConfig(BoolOf(TRUE), IntOf(3), IntOf(200), IntOf(500)),
     RetryPolicyConfig(BoolOf(TRUE), IntOf(4), IntOf(30), IntOf(30))}

InitSleep ==
    /\ config \in SleepConfigInputs
    /\ LET built == PearlClientInit(Str(<<107>>), NoneInt, config)
       IN  client = built.client /\ policy = built.policy /\ hooks = built.hooks
    /\ call = NoCall
    /\ sig = NoSignatureCall
    /\ reqs = [q \in AllReqs |-> IdleRequest]
    /\ slept = [q \in AllReqs |-> 0]
    /\ json_body = Absent /\ parsed = NotParsed /\ op = NoOp /\ http = <<>>

\* time.sleep(delay_ms / 1000.0) is over: continue; delay_ms milliseconds
\* more have been slept
SleepCounted(q) ==
    /\ reqs[q].pc = "sleep"
    /\ reqs' = [reqs EXCEPT ![q].pc = "attempt", ![q].sleeps = reqs[q].sleeps + 1]
    /\ slept' = [slept EXCEPT ![q] = slept[q] + reqs[q].delay_ms]
    /\ UNCHANGED <<policyVars, sig, client, resVars>>

NextSleep ==
    \/ SendStart("r1")
    \/ Attempt("r1")
    \/ SleepCounted("r1")

SpecSleep == InitSleep /\ [][NextSleep]_vars

\* C26: whatever the outcomes of the attempts, the delays a logical request
\* has slept between its attempts add up to at most
\* max_retries * max_retry_delay_ms * 1.1 milliseconds.
C26_TotalSleepBounded ==
    \A q \in AllReqs :
        10 * slept[q] <= 11 * policy.max_retries * policy.max_retry_delay_ms

\* four retries of 33 ms each were slept out: all of the 132 ms allowed
C26_Witness ==
    /\ policy.max_retries = 4 /\ policy.max_retry_delay_ms = 30
    /\ reqs["r1"].sleeps = 4 /\ Terminal(reqs["r1"])
    /\ 10 * slept["r1"] = 11 * policy.max_retries * policy.max_retry_delay_ms


---------------------------------------------------------------------------
(* The retry count of one logical request, checked under SpecSend          *)

\* every attempt so far was answered 422 and the request is over
EndedOn422s(r) == Terminal(r) /\ r.all_422 /\ r.sends >= 1

\* C27: in every state of a logical request 0 <= retry_count <=
\* max_retries, the count being the number of retries granted so far (it
\* starts at 0 and goes up by one with each); so at most max_retries + 1
\* sends are made: exactly max_retries + 1 by a request of an enabled policy
\* whose every attempt was answered 422, exactly 1 when max_retries is 0;
\* and calculate_retry_delay is called with arguments in 1..max_retries
\* only.
C27_RetryCountWithinMaxRetries ==
    \A q \in AllReqs :
        LET r == reqs[q]
        IN  r.pc # "idle" =>
              /\ 0 <= r.retry_count /\ r.retry_count <= policy.max_retries
              /\ r.retry_count <= r.sends /\ (r.sends = 0 => r.retry_count = 0)
              /\ r.sends <= policy.max_retries + 1
              /\ (EndedOn422s(r) /\ policy.enabled) => r.sends = policy.max_retries + 1
              /\ (Terminal(r) /\ policy.max_retries = 0) => r.sends = 1
              /\ r.pc = "sleep" => r.retry_count \in 1..policy.max_retries

\* what does hold: the same, while the retry count stays within the
\* exponents of a double
RetryCountWithinMaxRetriesBelowFloatRange ==
    \A q \in AllReqs :
        LET r == reqs[q]
        IN  r.pc # "idle" =>
              /\ 0 <= r.retry_count /\ r.retry_count <= policy.max_retries
              /\ r.retry_count <= r.sends /\ (r.sends = 0 => r.retry_count = 0)
              /\ r.sends <= policy.max_retries + 1
              /\ (EndedOn422s(r) /\ policy.enabled /\ r.retry_count <= FloatMaxExp) =>
                    r.sends = policy.max_retries + 1
              /\ (Terminal(r) /\ policy.max_retries = 0) => r.sends = 1
              /\ r.pc = "sleep" => r.retry_count \in 1..policy.max_retries


---------------------------------------------------------------------------
(* Termination. One logical request is sent; every call of super().send    *)
(* that is under way gives its outcome and every sleep that is under way   *)
(* ends                                                                    *)

\* the default policy, a disabled one and a short one
LiveConfigInputs ==
    {NoConfig,
     RetryPolicyConfig(BoolOf(FALSE), IntOf(3), NoneInt, NoneInt),
     RetryPolicyConfig(BoolOf(TRUE), IntOf(3), IntOf(200), IntOf(500))}

InitLive ==
    /\ config \in LiveConfigInputs
    /\ LET built == PearlClientInit(Str(<<107>>), NoneInt, config)
       IN  client = built.client /\ policy = built.policy /\ hooks = built.hooks
    /\ call = NoCall
    /\ sig = NoSignatureCall
    /\ reqs = [q \in AllReqs |-> IdleRequest]
    /\ slept = [q \in AllReqs |-> 0]
    /\ json_body = Absent /\ parsed = NotParsed /\ op = NoOp /\ http = <<>>

NextLive ==
    \/ SendStart("r1")
    \/ Attempt("r1")
    \/ Sleep("r1")

SpecLive ==
    InitLive /\ [][NextLive]_vars /\ WF_vars(Attempt("r1")) /\ WF_vars(Sleep("r1"))

\* C28: if every attempt and every sleep comes to its end, every logical
\* request that has entered the transport's loop is eventually over, with a
\* response returned or a failure raised, whatever the policy and the
\* outcomes of the attempts, a 422 from every attempt included.
C28_EveryRequestTerminates ==
    (reqs["r1"].pc \in {"attempt", "sleep"}) ~> Terminal(reqs["r1"])

\* under the default policy every one of 31 attempts was answered 422, and
\* the request is over
C28_Witness ==
    /\ policy.max_retries = DefaultMaxRetries /\ policy.enabled
    /\ reqs["r1"].all_422 /\ reqs["r1"].sends = DefaultMaxRetries + 1
    /\ reqs["r1"].pc = "returned"


---------------------------------------------------------------------------
(* Which received signatures verify, checked under SpecSig                 *)

\* compute_signature(secret, payload) for the arguments of the call
ExpectedSignature == compute_webhook_signature(sig.secret, sig.payload).text

\* C29: for every non-empty payload, secret and received string,
\* verify_signature returns true if the received string is, character for
\* character, compute_signature(secret, payload), and false for every
\* other received string, the expected signature with characters outside
\* the Base64 alphabet (a space, a newline, '!') inserted or appended
\* included.
C29_TrueOnlyForIdenticalText ==
    (VerifyCalled /\ AllPresent) =>
        sig.verified = ReturnedBool(sig.received = Str(ExpectedSignature))

\* what does hold: verify_signature returns true exactly when the received
\* string decodes, as b64decode decodes it, to the bytes of the expected
\* signature
TrueForEqualDecodedBytes ==
    (VerifyCalled /\ AllPresent) =>
        LET received == b64decode(sig.received.v)
            expected == b64decode(ExpectedSignature)
        IN  sig.verified = ReturnedBool(received.ok /\ received.bytes = expected.bytes)

\* the tampered signatures that verify
TamperedVerifies ==
    /\ VerifyCalled /\ AllPresent
    /\ sig.received # Str(ExpectedSignature)
    /\ sig.verified = ReturnedBool(TRUE)


---------------------------------------------------------------------------
(* The parser on parts that are null, checked under SpecParse              *)

\* the body with a null choices or message taken for a missing one
NullAsMissing(body) ==
    LET items == body.choices.items
        choices == IF body.choices.k = "null" THEN AbsentChoices
                   ELSE [body.choices EXCEPT !.items =
                            [i \in 1..Len(items) |->
                                IF items[i].message.k = "null"
                                THEN [items[i] EXCEPT !.message = AbsentMessage]
                                ELSE items[i]]]
    IN  [body EXCEPT !.choices = choices]

\* C30: for every body that is a JSON object the parser returns a
\* ChatCompletionResponse and raises nothing, each optional part being
\* present, absent or null; a null choices or a null message is parsed as
\* a missing one is, and the is_human of every parsed message is a boolean.
C30_ParsesEveryObject ==
    parsed # NotParsed =>
        /\ Parsed
        /\ parsed = _parse_chat_completion_response(NullAsMissing(json_body))
        /\ \A i \in 1..Len(parsed.choices) :
              parsed.choices[i].message.is_human \in {JBool(FALSE), JBool(TRUE)}

\* what does hold: a body whose choices and messages are not null is
\* parsed and nothing is raised; a null choices raises TypeError, a null
\* message AttributeError
ParsesUnlessChoicesOrMessageNull ==
    parsed # NotParsed =>
        LET items == json_body.choices.items
        IN  parsed.kind =
               (IF json_body.choices.k = "null" THEN "TypeError"
                ELSE IF \E i \in 1..Len(items) : items[i].message.k = "null"
                THEN "AttributeError" ELSE "ChatCompletionResponse")

\* a body without a null choices or message whose parsed is_human is None
IsHumanNotBoolean ==
    /\ Parsed
    /\ \E i \in 1..Len(parsed.choices) :
          parsed.choices[i].message.is_human \notin {JBool(FALSE), JBool(TRUE)}

===========================================================================
